---- MODULE Spec2Model ----
(***************************************************************************)
(* Model of the backup_websites pipeline:                                  *)
(*   - TortillaconsalBackupLogic.find_missing_nodes   (SpecFind)           *)
(*   - TortillaconsalBackupLogic.download_pagination_pages (SpecPag)       *)
(*   - backup_website.main racing wait_for_completion.main (SpecRun)       *)
(*   - s3.main with upload_directory_to_s3 (SpecS3)                        *)
(*   - TortillaconsalBackupLogic.run (SpecLogic)                           *)
(*   - TortillaconsalBackupLogic.download_missing_nodes (SpecDmn)          *)
(***************************************************************************)
EXTENDS Integers, Sequences, FiniteSets, TLC

VARIABLES
    \* ---- find_missing_nodes -------------------------------------------
    findPc,          \* "call" | "returned"
    node_path,       \* section being reconciled
    node_dirs,       \* <<bare-domain dir, www. dir>> of <section>/node/
    homepage,        \* what GET <base>/<section>/ does
    archivos,        \* what GET <base>/archivos.html does
    nodeSite,        \* what HEAD <base>/<section>/node/<n> does
    missing_nodes,   \* the returned list
    getLog,          \* GET requests issued, in order
    headLog,         \* identifiers HEAD-probed, in order
    scrapedMax,      \* max_live_node of the call, 0 when nothing was scraped
    forwardLog,      \* identifiers probed by the forward extension, in order
    candidateLog,    \* identifiers probed by the reconciliation, in order
    live_max,        \* actual_max of the call, 0 when it was never computed
    findOutcome,     \* "skipped" | "no_live" | "reconciled"
    \* ---- download_pagination_pages --------------------------------------
    pagPc,           \* "page0" | "bounds" | "search" | "download" | "done"
    pageSite,        \* what HEAD <base>/<section>/?page=<i> does
    wgetFails,       \* pages whose wget invocation returns non-zero
    low, high,       \* the search bounds
    powerIdx,        \* position in the list [10, 100, 500, 1000]
    max_pages,       \* the discovered maximum page
    page,            \* loop variable of the download loop
    downloaded,      \* count of successful wget invocations
    pageProbes,      \* page indices HEAD-probed, in order
    searchProbes,    \* iterations of the binary-search loop
    wgetPages,       \* page indices handed to wget, in order
    pagReturn,       \* "" | "no_pagination" | "only_page0" | "completed"
    \* ---- backup_website.main ---------------------------------------------
    mainPc,
    enable_node_detection,
    detailed_errors, \* the error strings collected so far (as tags)
    emails,          \* notification attempts, in order
    toolLog,         \* external-tool invocations of the run, in order
    touchLog,        \* marker touch attempts of main: path and outcome
    articles,        \* the get_articles call: wget's exit code and how it ended
    logicLog,        \* TortillaconsalBackupLogic events of main: construct, run
    exitCode,        \* process exit code of main, -1 while running
    \* ---- the shared filesystem -------------------------------------------
    dirExists,       \* the download directory exists
    marker,          \* <download_dir>/.backup_complete exists
    \* ---- wait_for_completion.main ----------------------------------------
    pollPc,
    timeout, check_interval,
    elapsed, last_status_time,
    unlinks,         \* marker deletions by the poller
    pollSaw,         \* the poller's exists() returned True
    fallback,        \* what the timeout path read: "" before it ran
    pollExit,        \* exit code of the poller, -1 while running
    \* ---- s3.main and upload_directory_to_s3 ----
    s3Pc,            \* position in s3.main
    s3_folder,       \* input: the S3 folder name
    local_dir,       \* input: the local directory (exists, files, dirs)
    credChecks,      \* calls of test_aws_credentials
    is_valid,        \* what test_aws_credentials returned
    s3Calls,         \* boto3 calls issued, in order: list_buckets, upload_file
    pending,         \* files upload_directory_to_s3 has still to walk
    \* ---- TortillaconsalBackupLogic.run ----
    logicPc,         \* position in run
    structSite,      \* input: outcome of HEAD /<section>/node/1 per section
    findReturn,      \* input: what find_missing_nodes returns per section
    probeIdx,        \* loop index of verify_node_structure
    structProbes,    \* sections probed by verify_node_structure, in order
    structure_ok,    \* what verify_node_structure returned
    sectionIdx,      \* loop index of run over NODE_PATHS
    callLog,         \* calls run has made, in order
    \* ---- TortillaconsalBackupLogic.download_missing_nodes ----
    dmnPc,           \* position in download_missing_nodes
    nodes_in,        \* input: the missing_nodes argument
    nodeFails,       \* input: identifiers whose wget exits non-zero
    batch_i,         \* i of the batch loop
    batch,           \* the current batch
    batch_pos,       \* position of the next node_num in the batch
    inFlight,        \* wget processes started and not yet waited for
    nodeWgets,       \* wget invocations, in order: node_num and exit status
    \* ---- the two reconciliation modes of find_missing_nodes, side by side ----
    gapDone,         \* the gap-interval mode has run
    allDone,         \* the exhaustive mode has run
    existing_in_backup, \* input: the archived identifiers (never empty)
    actualMaxIn,     \* input: actual_max, the live maximum
    probeSite,       \* input: what HEAD <base>/<section>/node/<n> does
    gaps_list,       \* the gap intervals computed by the gap-interval mode
    gapMissing,      \* what the gap-interval mode returns
    allMissing,      \* what the exhaustive mode returns
    \* ---- __init__ and the archive scan of find_missing_nodes ----
    scanPc,          \* "init" | "scan" | "scanned"
    url_host,        \* input: the host of the target URL, as its labels
    archiveDirs,     \* input: <section>/node/ under each directory of download_dir
    self_domain,     \* self.domain
    scannedNodes,    \* backup_nodes after the scan
    \* ---- successive runs on one download directory -------------------
    runNo            \* which run (and poller) of the directory is under way

findVars == <<findPc, node_path, node_dirs, homepage, archivos, nodeSite,
              missing_nodes, getLog, headLog, scrapedMax, forwardLog,
              candidateLog, live_max, findOutcome>>

pagVars == <<pagPc, pageSite, wgetFails, low, high, powerIdx, max_pages, page,
             downloaded, pageProbes, searchProbes, wgetPages, pagReturn>>

mainVars == <<mainPc, enable_node_detection, detailed_errors, emails, toolLog,
              touchLog, articles, logicLog, exitCode>>

fsVars == <<dirExists, marker>>

pollVars == <<pollPc, timeout, check_interval, elapsed, last_status_time,
              unlinks, pollSaw, fallback, pollExit>>

seqVars == <<runNo>>

runVars == <<mainVars, fsVars, pollVars, seqVars>>

s3Vars == <<s3Pc, s3_folder, local_dir, credChecks, is_valid, s3Calls, pending>>

logicVars == <<logicPc, structSite, findReturn, probeIdx, structProbes, structure_ok,
               sectionIdx, callLog>>

dmnVars == <<dmnPc, nodes_in, nodeFails, batch_i, batch, batch_pos, inFlight, nodeWgets>>

gapVars == <<gapDone, allDone, existing_in_backup, actualMaxIn, probeSite, gaps_list,
             gapMissing, allMissing>>

scanVars == <<scanPc, url_host, archiveDirs, self_domain, scannedNodes>>

vars == <<findVars, pagVars, runVars, s3Vars, logicVars, dmnVars, gapVars, scanVars>>

----------------------------------------------------------------------------
(* Generic helpers *)

Min(S) == CHOOSE x \in S : \A y \in S : x <= y
Max(S) == CHOOSE x \in S : \A y \in S : x >= y

\* Python range(a, b) as a list
Range(a, b) == [i \in 1..(IF b > a THEN b - a ELSE 0) |-> a + i - 1]

RECURSIVE SetToSeq(_)
SetToSeq(S) == IF S = {} THEN <<>>
               ELSE LET x == CHOOSE y \in S : TRUE
                    IN <<x>> \o SetToSeq(S \ {x})

\* Python sorted() over integers
Sorted(s) == SortSeq(s, LAMBDA a, b : a < b)

\* Python sorted() over (start, end) tuples: lexicographic
SortedPairs(s) ==
    SortSeq(s, LAMBDA a, b : a[1] < b[1] \/ (a[1] = b[1] /\ a[2] < b[2]))

SeqToSet(s) == {s[i] : i \in 1..Len(s)}

IsStrictlyAscending(s) == \A i \in 1..(Len(s) - 1) : s[i] < s[i + 1]

----------------------------------------------------------------------------
(* Program constants *)

NODE_PATHS == <<"bitacora", "tortilla">>

\* len(test_range) > 1000 switches to the gap-interval mode
GapThreshold == 1000

\* range(max_live_node, max_live_node + 200)
ForwardProbes == 200

----------------------------------------------------------------------------
(* Backup Node-Set Scanner: file names -> identifiers *)

Digits == <<"0", "1", "2", "3", "4", "5", "6", "7", "8", "9">>

IsDigit(c) == \E i \in 1..10 : Digits[i] = c

DigitVal(c) == (CHOOSE i \in 1..10 : Digits[i] = c) - 1

\* int(match.group(1)) for a string of decimal digits
RECURSIVE ParseInt(_)
ParseInt(s) == IF s = <<>> THEN 0
               ELSE 10 * ParseInt(SubSeq(s, 1, Len(s) - 1)) + DigitVal(s[Len(s)])

\* re.match(r"^(\d+)\.html$", file.name), the name given as stem + suffix
MatchesNodeFile(file) ==
    /\ file.suffix = ".html"
    /\ file.stem # <<>>
    /\ \A i \in 1..Len(file.stem) : IsDigit(file.stem[i])

\* the identifiers one node directory contributes
DirNodes(dir) ==
    IF ~dir.exists THEN {}
    ELSE {ParseInt(f.stem) : f \in {g \in dir.files : g.is_file /\ MatchesNodeFile(g)}}

\* backup_nodes after scanning both directory layouts
BackupNodes(dirs) == UNION {DirNodes(dirs[i]) : i \in 1..Len(dirs)}

----------------------------------------------------------------------------
(* Page-Existence Prober for node pages *)

\* requests.head(...): "ok" = status 200, "fail" = any other status,
\* "raise" = requests.RequestException
ProbeNode(site, n) ==
    IF n \in site.raises THEN "raise"
    ELSE IF n \in site.reach THEN "ok" ELSE "fail"

----------------------------------------------------------------------------
(* Live Node-Range Discoverer *)

\* re.findall(rf"/{node_path}/node/(\d+)", text) over the links of a page
ScrapeIds(path, links) == {l.id : l \in {k \in links : k.path = path}}

\* variant: no raise_for_status(), the body of an error page is scraped too
HomeIds_AnyStatus(path, home) ==
    IF home.kind = "raise" THEN {}
    ELSE ScrapeIds(path, home.links)

\* identifiers the section homepage contributes: raise_for_status() turns a
\* 4xx/5xx into a RequestException, which is swallowed
HomeIds(path, home) ==
    IF home.kind = "raise" \/ home.status >= 400 THEN {}
    ELSE ScrapeIds(path, home.links)

\* identifiers archivos.html contributes (bitacora only, status 200 only)
ArchIds(path, arch) ==
    IF path # "bitacora" \/ arch.kind = "raise" \/ arch.status # 200 THEN {}
    ELSE ScrapeIds(path, arch.links)

LiveNodes(path, home, arch) == HomeIds(path, home) \cup ArchIds(path, arch)

GetsIssued(path) ==
    IF path = "bitacora" THEN <<"homepage", "archivos">> ELSE <<"homepage">>

\* variant: a probe that raises is skipped and the loop goes on
ForwardProbed_PastRaise(site, m) ==
    LET bad == {n \in m..(m + ForwardProbes - 1) : ProbeNode(site, n) = "fail"}
    IN IF bad = {} THEN Range(m, m + ForwardProbes) ELSE Range(m, Min(bad) + 1)

\* identifiers probed by the forward extension, in order: the loop over
\* range(max_live_node, max_live_node + 200) breaks at the first probe that
\* is not 200
ForwardProbed(site, m) ==
    LET bad == {n \in m..(m + ForwardProbes - 1) : ProbeNode(site, n) # "ok"}
    IN IF bad = {} THEN Range(m, m + ForwardProbes) ELSE Range(m, Min(bad) + 1)

ActualMax(site, m) ==
    LET oks == SelectSeq(ForwardProbed(site, m), LAMBDA n : ProbeNode(site, n) = "ok")
    IN IF oks = <<>> THEN m ELSE oks[Len(oks)]

----------------------------------------------------------------------------
(* Gap Reconciler *)

\* variant: each gap starts at the archived identifier itself
RECURSIVE InnerGaps_FromArchived(_, _)
InnerGaps_FromArchived(sb, i) ==
    IF i >= Len(sb) THEN <<>>
    ELSE (IF sb[i + 1] - sb[i] > 1 THEN <<(<<sb[i], sb[i + 1]>>)>> ELSE <<>>)
         \o InnerGaps_FromArchived(sb, i + 1)

\* gaps_found, in the order the code appends them
RECURSIVE InnerGaps(_, _)
InnerGaps(sb, i) ==
    IF i >= Len(sb) THEN <<>>
    ELSE (IF sb[i + 1] - sb[i] > 1 THEN <<(<<sb[i] + 1, sb[i + 1]>>)>> ELSE <<>>)
         \o InnerGaps(sb, i + 1)

\* variant: the tail interval ends at actual_max instead of actual_max + 1
GapsFound_TailShort(sb, amax) ==
    InnerGaps(sb, 1)
    \o (IF sb # <<>> /\ sb[Len(sb)] < amax THEN <<(<<sb[Len(sb)] + 1, amax>>)>> ELSE <<>>)
    \o (IF sb # <<>> /\ sb[1] > 1 THEN <<(<<1, sb[1]>>)>> ELSE <<>>)

\* variant: no head interval before the first archived identifier
GapsFound_NoHead(sb, amax) ==
    InnerGaps(sb, 1)
    \o (IF sb # <<>> /\ sb[Len(sb)] < amax THEN <<(<<sb[Len(sb)] + 1, amax + 1>>)>> ELSE <<>>)

\* lines 129-146: inner gaps, then the tail, then the head
GapsFound(sb, amax) ==
    InnerGaps(sb, 1)
    \o (IF sb # <<>> /\ sb[Len(sb)] < amax THEN <<(<<sb[Len(sb)] + 1, amax + 1>>)>> ELSE <<>>)
    \o (IF sb # <<>> /\ sb[1] > 1 THEN <<(<<1, sb[1]>>)>> ELSE <<>>)

GapsList(backup, amax) == SortedPairs(GapsFound(Sorted(SetToSeq(backup)), amax))

RECURSIVE Flatten(_)
Flatten(gaps) == IF gaps = <<>> THEN <<>>
                 ELSE Range(gaps[1][1], gaps[1][2]) \o Flatten(Tail(gaps))

\* identifiers probed by the gap-interval mode, in order
GapCandidates(backup, amax) == Flatten(GapsList(backup, amax))

\* the exhaustive mode without the "not in existing_in_backup" test
AllCandidates_NoFilter(backup, amax) == Range(1, amax + 1)

\* identifiers probed by the exhaustive mode, in order
AllCandidates(backup, amax) ==
    SelectSeq(Range(1, amax + 1), LAMBDA n : n \notin backup)

Candidates(backup, amax) ==
    IF amax > GapThreshold THEN GapCandidates(backup, amax)
    ELSE AllCandidates(backup, amax)

\* the early return dropped: an empty archive is reconciled like any other
NoBackupNodes_Never(backup_nodes) == FALSE

\* "if not backup_nodes": nothing archived, skip the section
NoBackupNodes(backup_nodes) == backup_nodes = {}

\* the whole of find_missing_nodes: what it returns and what it requests
FindMissingNodes(path, dirs, home, arch, site) ==
    LET backup_nodes == BackupNodes(dirs)
        live_nodes   == LiveNodes(path, home, arch)
    IN IF NoBackupNodes(backup_nodes)
       THEN [result |-> <<>>, gets |-> <<>>, heads |-> <<>>, actual_max |-> 0,
             max_live_node |-> 0, forward |-> <<>>, candidates |-> <<>>,
             outcome |-> "skipped"]
       ELSE IF live_nodes = {}
       THEN [result |-> <<>>, gets |-> GetsIssued(path), heads |-> <<>>,
             actual_max |-> 0, max_live_node |-> 0, forward |-> <<>>,
             candidates |-> <<>>, outcome |-> "no_live"]
       ELSE LET max_live_node == Max(live_nodes)
                actual_max    == ActualMax(site, max_live_node)
                probed        == Candidates(backup_nodes, actual_max)
                found         == SelectSeq(probed, LAMBDA n : ProbeNode(site, n) = "ok")
            IN [result     |-> Sorted(found),
                gets       |-> GetsIssued(path),
                heads      |-> ForwardProbed(site, max_live_node) \o probed,
                actual_max |-> actual_max,
                max_live_node |-> max_live_node,
                forward    |-> ForwardProbed(site, max_live_node),
                candidates |-> probed,
                outcome    |-> "reconciled"]

----------------------------------------------------------------------------
(* Inputs of find_missing_nodes *)

\* largest number of entries in the www. node directory
MaxFiles == 2

\* how far past a landmark the reachable node range may end
NodeSlack == 2

File(stem, suffix, is_file) == [stem |-> stem, suffix |-> suffix, is_file |-> is_file]

WwwPool == {File(<<"1">>, ".html", TRUE),  File(<<"2">>, ".html", TRUE),
            File(<<"5">>, ".html", TRUE),  File(<<"a">>, ".html", TRUE),
            File(<<"3">>, ".txt", TRUE),   File(<<"7">>, ".html", FALSE)}

BarePool == {{File(<<"0", "4">>, ".html", TRUE)},
             {File(<<"2", "0", "0", "0">>, ".html", TRUE)}}

Dir(exists, files) == [exists |-> exists, files |-> files]

WwwDirs == {Dir(FALSE, {})}
           \cup {Dir(TRUE, S) : S \in {T \in SUBSET WwwPool : Cardinality(T) <= MaxFiles}}
           \cup {Dir(TRUE, {File(<<"1">>, ".html", TRUE), File(<<"2">>, ".html", TRUE),
                            File(<<"5">>, ".html", TRUE)})}

BareDirs == {Dir(FALSE, {})} \cup {Dir(TRUE, S) : S \in BarePool}

Link(path, id) == [path |-> path, id |-> id]

LinkSets == {{}, {Link("bitacora", 1), Link("bitacora", 10)},
             {Link("tortilla", 3), Link("bitacora", 3)},
             {Link("tortilla", GapThreshold + 1), Link("bitacora", GapThreshold - 1)}}

Pages == {[kind |-> "raise", status |-> 0, links |-> {}],
          [kind |-> "response", status |-> 404, links |-> {Link("bitacora", 10), Link("tortilla", 10)}]}
         \cup {[kind |-> "response", status |-> 200, links |-> L] : L \in LinkSets}

ArchivosPages == {[kind |-> "raise", status |-> 0, links |-> {}],
                  [kind |-> "response", status |-> 404, links |-> {Link("bitacora", 10)}],
                  [kind |-> "response", status |-> 200, links |-> {Link("bitacora", 12)}]}

NodeTops == {0, 10, GapThreshold} \cup {10 + NodeSlack, GapThreshold + NodeSlack}

NodeSites == {[reach |-> (1..t) \ d[1], raises |-> d[2]] :
                 t \in NodeTops, d \in {<<{}, {}>>, <<{6}, {}>>, <<{}, {4}>>}}

FindInit ==
    /\ findPc = "call"
    /\ node_path \in SeqToSet(NODE_PATHS)
    /\ node_dirs \in {<<b, w>> : b \in BareDirs, w \in WwwDirs}
    /\ homepage \in Pages
    /\ archivos \in ArchivosPages
    /\ (node_path # "bitacora" => archivos.kind = "raise")
    /\ nodeSite \in NodeSites
    /\ missing_nodes = <<>>
    /\ getLog = <<>>
    /\ headLog = <<>>
    /\ scrapedMax = 0
    /\ forwardLog = <<>>
    /\ candidateLog = <<>>
    /\ live_max = 0
    /\ findOutcome = ""

\* one call of find_missing_nodes(node_path)
FindCall ==
    /\ findPc = "call"
    /\ \E r \in {FindMissingNodes(node_path, node_dirs, homepage, archivos, nodeSite)} :
          /\ missing_nodes' = r.result
          /\ getLog' = r.gets
          /\ headLog' = r.heads
          /\ scrapedMax' = r.max_live_node
          /\ forwardLog' = r.forward
          /\ candidateLog' = r.candidates
          /\ live_max' = r.actual_max
          /\ findOutcome' = r.outcome
    /\ findPc' = "returned"
    /\ UNCHANGED <<node_path, node_dirs, homepage, archivos, nodeSite>>
    /\ UNCHANGED <<pagVars, runVars, s3Vars, logicVars, dmnVars, gapVars, scanVars>>

----------------------------------------------------------------------------
(* Pagination Page Enumerator: download_pagination_pages *)

\* low, high = 0, 1000
InitialHigh == 1000

\* for power in [10, 100, 500, 1000]
Powers == <<10, 100, 500, 1000>>

\* requests.head(<base>/<section>/?page=i)
ProbePage(site, i) ==
    IF i \in site.raises THEN "raise"
    ELSE IF (i <= site.top /\ i \notin site.holes) \/ i \in site.extras THEN "ok"
    ELSE "fail"

\* the midpoint biased toward the lower half
Mid_Floor(lo, hi) == (lo + hi) \div 2

\* mid = (low + high + 1) // 2
Mid(lo, hi) == (lo + hi + 1) \div 2

\* a reachable midpoint moves low past it
Narrow_PastMid(outcome, lo, hi, mid) ==
    IF outcome = "ok" THEN <<mid + 1, hi>> ELSE <<lo, mid - 1>>

\* a probe that raises is taken for a reachable page
Narrow_RaiseIsOk(outcome, lo, hi, mid) ==
    IF outcome \in {"ok", "raise"} THEN <<mid, hi>> ELSE <<lo, mid - 1>>

\* the loop body's update of (low, high) from the probe of mid
Narrow(outcome, lo, hi, mid) ==
    IF outcome = "ok" THEN <<mid, hi>> ELSE <<lo, mid - 1>>

\* subprocess.run(wget ... ?page=p).returncode == 0
WgetOk(fails, p) == p \notin fails

\* lines 212-226: is page 0 reachable
PagCheckPage0 ==
    /\ pagPc = "page0"
    /\ pageProbes' = Append(pageProbes, 0)
    /\ IF ProbePage(pageSite, 0) = "ok"
       THEN /\ max_pages' = 0
            /\ low' = 0
            /\ high' = InitialHigh
            /\ powerIdx' = 1
            /\ pagPc' = "bounds"
            /\ UNCHANGED pagReturn
       ELSE /\ pagPc' = "done"
            /\ pagReturn' = "no_pagination"
            /\ UNCHANGED <<max_pages, low, high, powerIdx>>
    /\ UNCHANGED <<pageSite, wgetFails, page, downloaded, searchProbes, wgetPages>>
    /\ UNCHANGED <<findVars, runVars, s3Vars, logicVars, dmnVars, gapVars, scanVars>>

\* lines 229-240: one iteration of the bound-seeking loop
PagBoundStep ==
    /\ pagPc = "bounds"
    /\ LET power == Powers[powerIdx]
       IN /\ pageProbes' = Append(pageProbes, power)
          /\ IF ProbePage(pageSite, power) = "ok"
             THEN /\ low' = power
                  /\ powerIdx' = powerIdx + 1
                  /\ pagPc' = IF powerIdx = Len(Powers) THEN "search" ELSE "bounds"
                  /\ UNCHANGED high
             ELSE /\ high' = power
                  /\ pagPc' = "search"
                  /\ UNCHANGED <<low, powerIdx>>
    /\ UNCHANGED <<pageSite, wgetFails, max_pages, page, downloaded, searchProbes,
                   wgetPages, pagReturn>>
    /\ UNCHANGED <<findVars, runVars, s3Vars, logicVars, dmnVars, gapVars, scanVars>>

\* lines 244-254: one iteration of the binary search
PagSearchStep ==
    /\ pagPc = "search"
    /\ low < high
    /\ LET mid == Mid(low, high)
           nxt == Narrow(ProbePage(pageSite, mid), low, high, mid)
       IN /\ pageProbes' = Append(pageProbes, mid)
          /\ low' = nxt[1]
          /\ high' = nxt[2]
    /\ searchProbes' = searchProbes + 1
    /\ UNCHANGED <<pagPc, pageSite, wgetFails, powerIdx, max_pages, page, downloaded,
                   wgetPages, pagReturn>>
    /\ UNCHANGED <<findVars, runVars, s3Vars, logicVars, dmnVars, gapVars, scanVars>>

\* lines 256-267: the loop has ended; max_pages = low, return if it is 0
PagSearchEnd ==
    /\ pagPc = "search"
    /\ ~(low < high)
    /\ max_pages' = low
    /\ IF low = 0
       THEN /\ pagPc' = "done"
            /\ pagReturn' = "only_page0"
            /\ UNCHANGED <<page, downloaded>>
       ELSE /\ pagPc' = "download"
            /\ page' = 0
            /\ downloaded' = 0
            /\ UNCHANGED pagReturn
    /\ UNCHANGED <<pageSite, wgetFails, low, high, powerIdx, pageProbes, searchProbes,
                   wgetPages>>
    /\ UNCHANGED <<findVars, runVars, s3Vars, logicVars, dmnVars, gapVars, scanVars>>

\* a failed invocation ends the download loop
AfterWget_Break(ok, p, d) == IF ok THEN <<p + 1, d + 1>> ELSE <<max_pages + 1, d>>

\* the result of one wget invocation on the loop state <<page, downloaded>>
AfterWget(ok, p, d) == <<p + 1, IF ok THEN d + 1 ELSE d>>

\* lines 268-300: one iteration of the download loop
PagDownloadStep ==
    /\ pagPc = "download"
    /\ page <= max_pages
    /\ wgetPages' = Append(wgetPages, page)
    /\ LET nxt == AfterWget(WgetOk(wgetFails, page), page, downloaded)
       IN /\ page' = nxt[1]
          /\ downloaded' = nxt[2]
          /\ IF nxt[1] > max_pages
             THEN pagPc' = "done" /\ pagReturn' = "completed"
             ELSE UNCHANGED <<pagPc, pagReturn>>
    /\ UNCHANGED <<pageSite, wgetFails, low, high, powerIdx, max_pages, pageProbes,
                   searchProbes>>
    /\ UNCHANGED <<findVars, runVars, s3Vars, logicVars, dmnVars, gapVars, scanVars>>

PagNext == \/ PagCheckPage0
           \/ PagBoundStep
           \/ PagSearchStep
           \/ PagSearchEnd
           \/ PagDownloadStep

(* Inputs of download_pagination_pages *)

\* contiguous sites 0..k for every k up to SmallTop
SmallTop == 12

\* contiguous sites ending within Near of each landmark 10, 100, 500, 1000
Near == 1

PageTops == (-1..SmallTop)
            \cup {Powers[i] + d : i \in 1..Len(Powers), d \in (-Near)..Near}

\* indices at which a site deviates from a contiguous one
Deviations == {0, 5, 10, 55, 100, 300, 500, 750, 1000}

ContiguousSites == {[top |-> t, holes |-> {}, extras |-> {}, raises |-> {}] : t \in PageTops}

DeviantSites ==
    {[top |-> t, holes |-> {d}, extras |-> {}, raises |-> {}] :
        t \in PageTops, d \in Deviations}
    \cup {[top |-> t, holes |-> {}, extras |-> {d}, raises |-> {}] :
        t \in PageTops, d \in Deviations}
    \cup {[top |-> t, holes |-> {}, extras |-> {}, raises |-> {d}] :
        t \in PageTops, d \in Deviations}

WgetFailSets == {{}, {0}, {1, 2}, 0..InitialHigh}

IsContiguous(site) == site.holes = {} /\ site.extras = {} /\ site.raises = {}

PagInit ==
    /\ pagPc = "page0"
    /\ pageSite \in ContiguousSites \cup DeviantSites
    /\ wgetFails \in WgetFailSets
    /\ (~IsContiguous(pageSite) => wgetFails = {})
    /\ low = 0
    /\ high = 0
    /\ powerIdx = 0
    /\ max_pages = 0
    /\ page = 0
    /\ downloaded = 0
    /\ pageProbes = <<>>
    /\ searchProbes = 0
    /\ wgetPages = <<>>
    /\ pagReturn = ""

----------------------------------------------------------------------------
(* backup_website.main *)

\* most reconciliation fetches modelled for one run
MaxFetches == 2

\* largest exit code the mirroring tool is given (wget documents 0..8)
MaxExitCode == 8

\* exit codes the mirroring tool is given
WgetCodes == 0..MaxExitCode

\* variant: a network failure (exit code 4) is tolerated like a server error
WgetAccepted_NetworkToo(rc) == rc = 0 \/ rc = 4 \/ rc = 8

\* match result.returncode: case 0 | case 8 pass, anything else raises
WgetAccepted(rc) == rc = 0 \/ rc = 8

\* how get_articles ends: download_dir.mkdir may raise before wget is run
GetArticles(mkdirOk, rc) ==
    IF ~mkdirOk THEN "OSError"
    ELSE IF WgetAccepted(rc) THEN "returned" ELSE "CalledProcessError"

NoArticles == [ran |-> FALSE, rc |-> -1, outcome |-> ""]

\* completion_file.touch(): fails when the download directory is missing, and
\* may fail for any other filesystem reason
TouchOutcomes == IF dirExists THEN {TRUE, FALSE} ELSE {FALSE}

\* lines 165-172
MainSetupLogging ==
    /\ mainPc = "logging"
    /\ \E ok \in BOOLEAN :
          IF ok THEN /\ mainPc' = "chdir"
                     /\ UNCHANGED detailed_errors
          ELSE /\ detailed_errors' = Append(detailed_errors, "Logging setup failed")
               /\ mainPc' = "failure_email"
    /\ UNCHANGED <<enable_node_detection, emails, toolLog, touchLog, exitCode,
                   fsVars, pollVars>>
    /\ UNCHANGED <<findVars, pagVars, s3Vars, logicVars, dmnVars, gapVars, scanVars,
                   seqVars>>
    /\ UNCHANGED <<articles, logicLog>>

\* the directory-change handler logging the failure without re-raising it
MainChangeDir_Continues ==
    /\ mainPc = "chdir"
    /\ \E ok \in BOOLEAN :
          /\ detailed_errors' = IF ok THEN detailed_errors
                                ELSE Append(detailed_errors, "Directory change failed")
          /\ mainPc' = "mirror"
    /\ UNCHANGED <<enable_node_detection, emails, toolLog, touchLog, exitCode,
                   fsVars, pollVars>>
    /\ UNCHANGED <<findVars, pagVars, s3Vars, logicVars, dmnVars, gapVars, scanVars,
                   seqVars>>
    /\ UNCHANGED <<articles, logicLog>>

\* lines 175-182
MainChangeDir ==
    /\ mainPc = "chdir"
    /\ \E ok \in BOOLEAN :
          IF ok THEN /\ mainPc' = "mirror"
                     /\ UNCHANGED detailed_errors
          ELSE /\ detailed_errors' = Append(detailed_errors, "Directory change failed")
               /\ mainPc' = "failure_email"
    /\ UNCHANGED <<enable_node_detection, emails, toolLog, touchLog, exitCode,
                   fsVars, pollVars>>
    /\ UNCHANGED <<findVars, pagVars, s3Vars, logicVars, dmnVars, gapVars, scanVars,
                   seqVars>>
    /\ UNCHANGED <<articles, logicLog>>

\* get_articles writing the completion marker as soon as the mirror returns,
\* before reconciliation and the e-mail
MainGetArticles_MarksEarly ==
    /\ mainPc = "mirror"
    /\ \E mkdirOk \in (IF dirExists THEN {TRUE} ELSE BOOLEAN), rc \in WgetCodes :
          LET outcome == GetArticles(mkdirOk, rc)
          IN /\ articles' = [ran |-> mkdirOk, rc |-> IF mkdirOk THEN rc ELSE -1,
                             outcome |-> outcome]
             /\ dirExists' = (dirExists \/ mkdirOk)
             /\ toolLog' = IF mkdirOk THEN Append(toolLog, "mirror") ELSE toolLog
             /\ IF outcome = "returned"
                THEN /\ mainPc' = IF enable_node_detection THEN "reconcile"
                                  ELSE "success_email"
                     /\ touchLog' = Append(touchLog, [path |-> "success", ok |-> TRUE])
                     /\ marker' = TRUE
                     /\ UNCHANGED detailed_errors
                ELSE /\ detailed_errors' = Append(detailed_errors, "Wget download failed")
                     /\ mainPc' = "failure_email"
                     /\ UNCHANGED <<touchLog, marker>>
    /\ UNCHANGED <<enable_node_detection, emails, logicLog, exitCode, pollVars>>
    /\ UNCHANGED <<findVars, pagVars, s3Vars, logicVars, dmnVars, gapVars, scanVars,
                   seqVars>>

\* get_articles followed by reconciliation whatever --enable-node-detection says
MainGetArticles_AlwaysReconciles ==
    /\ mainPc = "mirror"
    /\ \E mkdirOk \in (IF dirExists THEN {TRUE} ELSE BOOLEAN), rc \in WgetCodes :
          LET outcome == GetArticles(mkdirOk, rc)
          IN /\ articles' = [ran |-> mkdirOk, rc |-> IF mkdirOk THEN rc ELSE -1,
                             outcome |-> outcome]
             /\ dirExists' = (dirExists \/ mkdirOk)
             /\ toolLog' = IF mkdirOk THEN Append(toolLog, "mirror") ELSE toolLog
             /\ IF outcome = "returned"
                THEN /\ mainPc' = "reconcile"
                     /\ UNCHANGED detailed_errors
                ELSE /\ detailed_errors' = Append(detailed_errors, "Wget download failed")
                     /\ mainPc' = "failure_email"
    /\ UNCHANGED <<enable_node_detection, emails, touchLog, logicLog, exitCode, marker,
                   pollVars>>
    /\ UNCHANGED <<findVars, pagVars, s3Vars, logicVars, dmnVars, gapVars, scanVars,
                   seqVars>>

\* lines 184-192 with get_articles: mkdir, one mirror invocation, exit-code match
MainGetArticles ==
    /\ mainPc = "mirror"
    /\ \E mkdirOk \in (IF dirExists THEN {TRUE} ELSE BOOLEAN), rc \in WgetCodes :
          LET outcome == GetArticles(mkdirOk, rc)
          IN /\ articles' = [ran |-> mkdirOk, rc |-> IF mkdirOk THEN rc ELSE -1,
                             outcome |-> outcome]
             /\ dirExists' = (dirExists \/ mkdirOk)
             /\ toolLog' = IF mkdirOk THEN Append(toolLog, "mirror") ELSE toolLog
             /\ IF outcome = "returned"
                THEN /\ mainPc' = IF enable_node_detection THEN "reconcile"
                                  ELSE "success_email"
                     /\ UNCHANGED detailed_errors
                ELSE /\ detailed_errors' = Append(detailed_errors, "Wget download failed")
                     /\ mainPc' = "failure_email"
    /\ UNCHANGED <<enable_node_detection, emails, touchLog, logicLog, exitCode, marker,
                   pollVars>>
    /\ UNCHANGED <<findVars, pagVars, s3Vars, logicVars, dmnVars, gapVars, scanVars,
                   seqVars>>

\* reconciliation outside its own try/except: what run() raises reaches the
\* exception handler of main
MainReconcile_Raises ==
    /\ mainPc = "reconcile"
    /\ logicLog' = logicLog \o <<"construct", "run">>
    /\ \E n \in 0..MaxFetches, ok \in BOOLEAN :
          /\ toolLog' = toolLog \o [i \in 1..n |-> "fetch"]
          /\ detailed_errors' = IF ok THEN detailed_errors
                                ELSE Append(detailed_errors, "Missing nodes check failed")
          /\ mainPc' = IF ok THEN "success_email" ELSE "failure_email"
    /\ UNCHANGED <<enable_node_detection, emails, touchLog, articles, exitCode, fsVars,
                   pollVars>>
    /\ UNCHANGED <<findVars, pagVars, s3Vars, logicVars, dmnVars, gapVars, scanVars,
                   seqVars>>

\* lines 196-203: TortillaconsalBackupLogic(url, download_dir).run(); the
\* constructor only parses the url get_articles has already parsed; whatever
\* run() raises is recorded and swallowed
MainReconcile ==
    /\ mainPc = "reconcile"
    /\ logicLog' = logicLog \o <<"construct", "run">>
    /\ \E n \in 0..MaxFetches, ok \in BOOLEAN :
          /\ toolLog' = toolLog \o [i \in 1..n |-> "fetch"]
          /\ detailed_errors' = IF ok THEN detailed_errors
                                ELSE Append(detailed_errors, "Missing nodes check failed")
    /\ mainPc' = "success_email"
    /\ UNCHANGED <<enable_node_detection, emails, touchLog, articles, exitCode, fsVars,
                   pollVars>>
    /\ UNCHANGED <<findVars, pagVars, s3Vars, logicVars, dmnVars, gapVars, scanVars,
                   seqVars>>

\* send_email never raises: a failing mail command is logged and swallowed
SendEmail(kind, delivered) ==
    emails' = Append(emails, [kind |-> kind, issues |-> detailed_errors,
                              delivered |-> delivered])

\* send_email without its try/except: a failing send reaches the exception
\* handler of main
MainSuccessEmail_Propagates ==
    /\ mainPc = "success_email"
    /\ \E delivered \in BOOLEAN :
          /\ SendEmail("success", delivered)
          /\ mainPc' = IF delivered THEN "success_touch" ELSE "failure_email"
    /\ UNCHANGED <<enable_node_detection, detailed_errors, toolLog, touchLog, exitCode,
                   fsVars, pollVars>>
    /\ UNCHANGED <<findVars, pagVars, s3Vars, logicVars, dmnVars, gapVars, scanVars,
                   seqVars>>
    /\ UNCHANGED <<articles, logicLog>>

\* lines 205-218
MainSuccessEmail ==
    /\ mainPc = "success_email"
    /\ \E delivered \in BOOLEAN : SendEmail("success", delivered)
    /\ mainPc' = "success_touch"
    /\ UNCHANGED <<enable_node_detection, detailed_errors, toolLog, touchLog, exitCode,
                   fsVars, pollVars>>
    /\ UNCHANGED <<findVars, pagVars, s3Vars, logicVars, dmnVars, gapVars, scanVars,
                   seqVars>>
    /\ UNCHANGED <<articles, logicLog>>

\* completion_file.touch() inside its own try/except
Touch(path, ok) ==
    /\ touchLog' = Append(touchLog, [path |-> path, ok |-> ok])
    /\ marker' = (marker \/ ok)

\* the success-path touch outside its own try/except: a failing touch lands in
\* the exception handler of main
MainSuccessTouch_FallsThrough ==
    /\ mainPc = "success_touch"
    /\ \E ok \in TouchOutcomes :
          /\ Touch("success", ok)
          /\ IF ok THEN mainPc' = "done" /\ exitCode' = 0
             ELSE mainPc' = "failure_email" /\ UNCHANGED exitCode
    /\ UNCHANGED <<enable_node_detection, detailed_errors, emails, toolLog, dirExists,
                   pollVars>>
    /\ UNCHANGED <<findVars, pagVars, s3Vars, logicVars, dmnVars, gapVars, scanVars,
                   seqVars>>
    /\ UNCHANGED <<articles, logicLog>>

\* lines 220-227, then main returns: exit code 0
MainSuccessTouch ==
    /\ mainPc = "success_touch"
    /\ \E ok \in TouchOutcomes : Touch("success", ok)
    /\ mainPc' = "done"
    /\ exitCode' = 0
    /\ UNCHANGED <<enable_node_detection, detailed_errors, emails, toolLog, dirExists,
                   pollVars>>
    /\ UNCHANGED <<findVars, pagVars, s3Vars, logicVars, dmnVars, gapVars, scanVars,
                   seqVars>>
    /\ UNCHANGED <<articles, logicLog>>

\* lines 229-246
MainFailureEmail ==
    /\ mainPc = "failure_email"
    /\ \E delivered \in BOOLEAN : SendEmail("failure", delivered)
    /\ mainPc' = "failure_touch"
    /\ UNCHANGED <<enable_node_detection, detailed_errors, toolLog, touchLog, exitCode,
                   fsVars, pollVars>>
    /\ UNCHANGED <<findVars, pagVars, s3Vars, logicVars, dmnVars, gapVars, scanVars,
                   seqVars>>
    /\ UNCHANGED <<articles, logicLog>>

\* the exception handler re-raising without touching the marker
MainFailureTouch_NoTouch ==
    /\ mainPc = "failure_touch"
    /\ mainPc' = "done"
    /\ exitCode' = 1
    /\ UNCHANGED <<enable_node_detection, detailed_errors, emails, toolLog, touchLog,
                   fsVars, pollVars>>
    /\ UNCHANGED <<findVars, pagVars, s3Vars, logicVars, dmnVars, gapVars, scanVars,
                   seqVars>>
    /\ UNCHANGED <<articles, logicLog>>

\* lines 248-256: touch, then re-raise: exit code 1
MainFailureTouch ==
    /\ mainPc = "failure_touch"
    /\ \E ok \in TouchOutcomes : Touch("failure", ok)
    /\ mainPc' = "done"
    /\ exitCode' = 1
    /\ UNCHANGED <<enable_node_detection, detailed_errors, emails, toolLog, dirExists,
                   pollVars>>
    /\ UNCHANGED <<findVars, pagVars, s3Vars, logicVars, dmnVars, gapVars, scanVars,
                   seqVars>>
    /\ UNCHANGED <<articles, logicLog>>

MainNext == \/ MainSetupLogging
            \/ MainChangeDir
            \/ MainGetArticles
            \/ MainReconcile
            \/ MainSuccessEmail
            \/ MainSuccessTouch
            \/ MainFailureEmail
            \/ MainFailureTouch

----------------------------------------------------------------------------
(* wait_for_completion.main *)

\* age_seconds < 3600
RecentSeconds == 3600

\* elapsed - last_status_time >= 30
StatusEvery == 30

\* directory ages the fallback may read: the tests' 100 s and 2 h, and the edge
Ages == {100, RecentSeconds - 1, RecentSeconds, 7200}

NoFallback == [ran |-> FALSE, dir |-> FALSE, mtime |-> "", age |-> 0]

\* click.Path(exists=True): a missing download directory is a usage error
PollStart ==
    /\ pollPc = "start"
    /\ IF dirExists THEN pollPc' = "first_check" /\ UNCHANGED pollExit
       ELSE pollPc' = "exited" /\ pollExit' = 2
    /\ UNCHANGED <<timeout, check_interval, elapsed, last_status_time, unlinks,
                   pollSaw, fallback, mainVars, fsVars>>
    /\ UNCHANGED <<findVars, pagVars, s3Vars, logicVars, dmnVars, gapVars, scanVars,
                   seqVars>>

\* line 59
PollFirstCheck ==
    /\ pollPc = "first_check"
    /\ IF marker THEN pollPc' = "unlink" /\ pollSaw' = TRUE
       ELSE pollPc' = "loop" /\ UNCHANGED pollSaw
    /\ UNCHANGED <<timeout, check_interval, elapsed, last_status_time, unlinks,
                   fallback, pollExit, mainVars, fsVars>>
    /\ UNCHANGED <<findVars, pagVars, s3Vars, logicVars, dmnVars, gapVars, scanVars,
                   seqVars>>

\* the loop test written as elapsed <= timeout
PollLoopTest_Inclusive ==
    /\ pollPc = "loop"
    /\ pollPc' = IF ~marker /\ elapsed <= timeout THEN "sleep" ELSE "final_check"
    /\ UNCHANGED <<timeout, check_interval, elapsed, last_status_time, unlinks,
                   pollSaw, fallback, pollExit, mainVars, fsVars>>
    /\ UNCHANGED <<findVars, pagVars, s3Vars, logicVars, dmnVars, gapVars, scanVars,
                   seqVars>>

\* line 65: while not completion_file.exists() and elapsed < timeout
PollLoopTest ==
    /\ pollPc = "loop"
    /\ pollPc' = IF ~marker /\ elapsed < timeout THEN "sleep" ELSE "final_check"
    /\ UNCHANGED <<timeout, check_interval, elapsed, last_status_time, unlinks,
                   pollSaw, fallback, pollExit, mainVars, fsVars>>
    /\ UNCHANGED <<findVars, pagVars, s3Vars, logicVars, dmnVars, gapVars, scanVars,
                   seqVars>>

\* lines 66-74
PollSleep ==
    /\ pollPc = "sleep"
    /\ elapsed' = elapsed + check_interval
    /\ last_status_time' = IF elapsed' - last_status_time >= StatusEvery
                           THEN elapsed' ELSE last_status_time
    /\ pollPc' = "loop"
    /\ UNCHANGED <<timeout, check_interval, unlinks, pollSaw, fallback, pollExit,
                   mainVars, fsVars>>
    /\ UNCHANGED <<findVars, pagVars, s3Vars, logicVars, dmnVars, gapVars, scanVars,
                   seqVars>>

\* line 76
PollFinalCheck ==
    /\ pollPc = "final_check"
    /\ IF marker THEN pollPc' = "unlink" /\ pollSaw' = TRUE
       ELSE pollPc' = "fallback" /\ UNCHANGED pollSaw
    /\ UNCHANGED <<timeout, check_interval, elapsed, last_status_time, unlinks,
                   fallback, pollExit, mainVars, fsVars>>
    /\ UNCHANGED <<findVars, pagVars, s3Vars, logicVars, dmnVars, gapVars, scanVars,
                   seqVars>>

\* the poller exiting without cleaning the marker up
PollUnlink_Keeps ==
    /\ pollPc = "unlink"
    /\ pollPc' = "exit_found"
    /\ UNCHANGED <<timeout, check_interval, elapsed, last_status_time, unlinks,
                   pollSaw, fallback, pollExit, mainVars, fsVars>>
    /\ UNCHANGED <<findVars, pagVars, s3Vars, logicVars, dmnVars, gapVars, scanVars,
                   seqVars>>

\* lines 61 and 79: completion_file.unlink()
PollUnlink ==
    /\ pollPc = "unlink"
    /\ marker' = FALSE
    /\ unlinks' = unlinks + 1
    /\ pollPc' = "exit_found"
    /\ UNCHANGED <<timeout, check_interval, elapsed, last_status_time, pollSaw,
                   fallback, pollExit, mainVars, dirExists>>
    /\ UNCHANGED <<findVars, pagVars, s3Vars, logicVars, dmnVars, gapVars, scanVars,
                   seqVars>>

\* lines 62 and 80: sys.exit(0)
PollExitFound ==
    /\ pollPc = "exit_found"
    /\ pollExit' = 0
    /\ pollPc' = "exited"
    /\ UNCHANGED <<timeout, check_interval, elapsed, last_status_time, unlinks,
                   pollSaw, fallback, mainVars, fsVars>>
    /\ UNCHANGED <<findVars, pagVars, s3Vars, logicVars, dmnVars, gapVars, scanVars,
                   seqVars>>

\* the age test written as age_seconds <= 3600
FallbackExit_Inclusive(dir, mtime, age) ==
    IF dir /\ mtime = "ok" /\ age <= RecentSeconds THEN 0 ELSE 1

\* the exit code of the timeout path from what it read
FallbackExit(dir, mtime, age) ==
    IF dir /\ mtime = "ok" /\ age < RecentSeconds THEN 0 ELSE 1

\* lines 81-102: the marker is absent; decide on the directory's age
PollFallback ==
    /\ pollPc = "fallback"
    /\ \E mtime \in {"ok", "oserror"}, age \in Ages :
          /\ fallback' = [ran |-> TRUE, dir |-> dirExists, mtime |-> mtime, age |-> age]
          /\ pollExit' = FallbackExit(dirExists, mtime, age)
    /\ pollPc' = "exited"
    /\ UNCHANGED <<timeout, check_interval, elapsed, last_status_time, unlinks,
                   pollSaw, mainVars, fsVars>>
    /\ UNCHANGED <<findVars, pagVars, s3Vars, logicVars, dmnVars, gapVars, scanVars,
                   seqVars>>

PollNext == \/ PollStart
            \/ PollFirstCheck
            \/ PollLoopTest
            \/ PollSleep
            \/ PollFinalCheck
            \/ PollUnlink
            \/ PollExitFound
            \/ PollFallback

(* Inputs of a run and its poller *)

MaxTimeout == 3

MaxInterval == 2

RunInit ==
    /\ mainPc = "logging"
    /\ enable_node_detection \in BOOLEAN
    /\ detailed_errors = <<>>
    /\ emails = <<>>
    /\ toolLog = <<>>
    /\ touchLog = <<>>
    /\ articles = NoArticles
    /\ logicLog = <<>>
    /\ exitCode = -1
    /\ dirExists \in BOOLEAN
    /\ marker = FALSE
    /\ pollPc = "start"
    /\ timeout \in 0..MaxTimeout
    /\ check_interval \in 1..MaxInterval
    /\ elapsed = 0
    /\ last_status_time = 0
    /\ unlinks = 0
    /\ pollSaw = FALSE
    /\ fallback = NoFallback
    /\ pollExit = -1
    /\ runNo = 1

(* The next run of the same download directory *)

MaxRuns == 2

\* the pipeline starts the backup and its poller again once both processes of
\* the previous run have ended: fresh locals (main 158-161, poller 55-56), the
\* download directory as the previous run left it
NextRun ==
    /\ runNo < MaxRuns
    /\ mainPc = "done"
    /\ pollPc = "exited"
    /\ runNo' = runNo + 1
    /\ mainPc' = "logging"
    /\ enable_node_detection' \in BOOLEAN
    /\ detailed_errors' = <<>>
    /\ emails' = <<>>
    /\ toolLog' = <<>>
    /\ touchLog' = <<>>
    /\ articles' = NoArticles
    /\ logicLog' = <<>>
    /\ exitCode' = -1
    /\ pollPc' = "start"
    /\ timeout' \in 0..MaxTimeout
    /\ check_interval' \in 1..MaxInterval
    /\ elapsed' = 0
    /\ last_status_time' = 0
    /\ unlinks' = 0
    /\ pollSaw' = FALSE
    /\ fallback' = NoFallback
    /\ pollExit' = -1
    /\ UNCHANGED fsVars
    /\ UNCHANGED <<findVars, pagVars, s3Vars, logicVars, dmnVars, gapVars, scanVars>>

----------------------------------------------------------------------------
(* s3.main: credential check, then upload_directory_to_s3 *)

\* a path is the sequence of its components; Path.name of a first-level entry
SubdirName(path) == path[1]

\* [d for d in local_dir.iterdir() if d.is_dir()], by name
Subdirs(dir) == {SubdirName(d) : d \in {e \in dir.dirs : Len(e) = 1}}

\* subdir.rglob("*") filtered by is_file(): regular files anywhere below subdir
FilesBelow(dir, name) == {f \in dir.files : Len(f) > 1 /\ f[1] = name}

\* path.relative_to(subdir) for a path below the first-level directory subdir
RelativeTo(path) == Tail(path)

\* f"{s3_folder}/{subdir_name}/{relative_path}", as the sequence of its parts
SubdirKey(folder, path) == <<folder, SubdirName(path)>> \o RelativeTo(path)

\* f"{s3_folder}/{relative_path}"
FlatKey(folder, path) == <<folder>> \o path

\* lines 67-90: the files upload_directory_to_s3 walks and the key of each;
\* with at least one subdirectory only the subdirectories are walked
UploadPlan(folder, dir) ==
    IF Subdirs(dir) # {}
    THEN UNION {{[path |-> f, key |-> SubdirKey(folder, f)] : f \in FilesBelow(dir, name)}
                  : name \in Subdirs(dir)}
    ELSE {[path |-> f, key |-> FlatKey(folder, f)] : f \in dir.files}

\* how test_aws_credentials can end: list_buckets succeeds, raises ClientError
\* or NoCredentialsError or anything else, or boto3.client itself raises
CredOutcomes == {"valid", "ClientError", "NoCredentialsError", "Exception", "no_client"}

\* line 114: setup_logging is not guarded; when it raises the command dies
S3SetupLogging ==
    /\ s3Pc = "logging"
    /\ \E ok \in BOOLEAN : s3Pc' = IF ok THEN "credentials" ELSE "crashed"
    /\ UNCHANGED <<s3_folder, local_dir, credChecks, is_valid, s3Calls, pending>>
    /\ UNCHANGED <<findVars, pagVars, runVars, logicVars, dmnVars, gapVars, scanVars>>

\* the credential check not gating the upload
S3TestCredentials_NoGate ==
    /\ s3Pc = "credentials"
    /\ \E outcome \in CredOutcomes :
          /\ credChecks' = credChecks + 1
          /\ s3Calls' = IF outcome = "no_client" THEN s3Calls
                        ELSE Append(s3Calls, [op |-> "list_buckets", key |-> <<>>])
          /\ is_valid' = (outcome = "valid")
          /\ s3Pc' = "upload_dir"
    /\ UNCHANGED <<s3_folder, local_dir, pending>>
    /\ UNCHANGED <<findVars, pagVars, runVars, logicVars, dmnVars, gapVars, scanVars>>

\* lines 117-123 with test_aws_credentials (15-35): at most one list_buckets
\* call, every exception turned into (False, message); main returns on False
S3TestCredentials ==
    /\ s3Pc = "credentials"
    /\ \E outcome \in CredOutcomes :
          /\ credChecks' = credChecks + 1
          /\ s3Calls' = IF outcome = "no_client" THEN s3Calls
                        ELSE Append(s3Calls, [op |-> "list_buckets", key |-> <<>>])
          /\ is_valid' = (outcome = "valid")
          /\ s3Pc' = IF outcome = "valid" THEN "upload_dir" ELSE "done"
    /\ UNCHANGED <<s3_folder, local_dir, pending>>
    /\ UNCHANGED <<findVars, pagVars, runVars, logicVars, dmnVars, gapVars, scanVars>>

\* lines 61-67: upload_directory_to_s3 returns at once when local_dir is missing
S3UploadDirectory ==
    /\ s3Pc = "upload_dir"
    /\ IF local_dir.exists
       THEN /\ pending' = UploadPlan(s3_folder, local_dir)
            /\ s3Pc' = "uploading"
       ELSE /\ s3Pc' = "done"
            /\ UNCHANGED pending
    /\ UNCHANGED <<s3_folder, local_dir, credChecks, is_valid, s3Calls>>
    /\ UNCHANGED <<findVars, pagVars, runVars, logicVars, dmnVars, gapVars, scanVars>>

\* one upload_to_s3 call (38-55) of the walk, in whatever order the
\* filesystem lists the files; an upload that raises ends the command
S3UploadFile ==
    /\ s3Pc = "uploading"
    /\ \E f \in pending, ok \in BOOLEAN :
          /\ s3Calls' = Append(s3Calls, [op |-> "upload_file", key |-> f.key])
          /\ pending' = pending \ {f}
          /\ s3Pc' = IF ok THEN "uploading" ELSE "crashed"
    /\ UNCHANGED <<s3_folder, local_dir, credChecks, is_valid>>
    /\ UNCHANGED <<findVars, pagVars, runVars, logicVars, dmnVars, gapVars, scanVars>>

\* the walk is over: upload_directory_to_s3 and main return
S3UploadDone ==
    /\ s3Pc = "uploading"
    /\ pending = {}
    /\ s3Pc' = "done"
    /\ UNCHANGED <<s3_folder, local_dir, credChecks, is_valid, s3Calls, pending>>
    /\ UNCHANGED <<findVars, pagVars, runVars, logicVars, dmnVars, gapVars, scanVars>>

S3Next ==
    \/ S3SetupLogging
    \/ S3TestCredentials
    \/ S3UploadDirectory
    \/ S3UploadFile
    \/ S3UploadDone

----------------------------------------------------------------------------
(* Inputs of the S3 upload command *)

\* regular files a local directory may hold: at the top, in a subdirectory, deeper
FilePool == {<<"index.html">>, <<"robots.txt">>,
             <<"site", "1.html">>, <<"site", "node", "2.html">>,
             <<"www.site", "3.html">>}

\* every directory on the way to a file
Ancestors(f) == {SubSeq(f, 1, n) : n \in 1..(Len(f) - 1)}

\* directories holding no file at all
EmptyDirPool == {<<"empty">>}

LocalDirs ==
    {[exists |-> TRUE, files |-> fs, dirs |-> (UNION {Ancestors(f) : f \in fs}) \cup es]
        : fs \in SUBSET FilePool, es \in SUBSET EmptyDirPool}
    \cup {[exists |-> FALSE, files |-> {}, dirs |-> {}]}

S3Init ==
    /\ s3Pc = "logging"
    /\ s3_folder \in {"backups"}
    /\ local_dir \in LocalDirs
    /\ credChecks = 0
    /\ is_valid = FALSE
    /\ s3Calls = <<>>
    /\ pending = {}

----------------------------------------------------------------------------
(* TortillaconsalBackupLogic.run with verify_node_structure *)

\* a call run makes on the section NODE_PATHS[i]
Call(fn, i, arg) == [fn |-> fn, node_path |-> NODE_PATHS[i], arg |-> arg]

\* lines 357-364, one turn of the loop: HEAD /<section>/node/1; status 200
\* returns True, another status or a RequestException goes to the next section
RunVerifyProbe ==
    /\ logicPc = "verify"
    /\ probeIdx <= Len(NODE_PATHS)
    /\ structProbes' = Append(structProbes, NODE_PATHS[probeIdx])
    /\ IF structSite[probeIdx] = "200"
       THEN /\ structure_ok' = TRUE
            /\ logicPc' = "gate"
            /\ UNCHANGED probeIdx
       ELSE /\ probeIdx' = probeIdx + 1
            /\ UNCHANGED <<structure_ok, logicPc>>
    /\ UNCHANGED <<structSite, findReturn, sectionIdx, callLog>>
    /\ UNCHANGED <<findVars, pagVars, runVars, s3Vars, dmnVars, gapVars, scanVars>>

\* line 366: the loop is over without a 200: return False
RunVerifyExhausted ==
    /\ logicPc = "verify"
    /\ probeIdx > Len(NODE_PATHS)
    /\ structure_ok' = FALSE
    /\ logicPc' = "gate"
    /\ UNCHANGED <<structSite, findReturn, probeIdx, structProbes, sectionIdx, callLog>>
    /\ UNCHANGED <<findVars, pagVars, runVars, s3Vars, dmnVars, gapVars, scanVars>>

\* run going on to the sections whatever verify_node_structure returned
RunGate_Open ==
    /\ logicPc = "gate"
    /\ sectionIdx' = 1
    /\ logicPc' = "pagination"
    /\ UNCHANGED <<structSite, findReturn, probeIdx, structProbes, structure_ok, callLog>>
    /\ UNCHANGED <<findVars, pagVars, runVars, s3Vars, dmnVars, gapVars, scanVars>>

\* lines 372-376: if not self.verify_node_structure(): return
RunGate ==
    /\ logicPc = "gate"
    /\ IF structure_ok
       THEN /\ sectionIdx' = 1
            /\ logicPc' = "pagination"
       ELSE /\ logicPc' = "returned"
            /\ UNCHANGED sectionIdx
    /\ UNCHANGED <<structSite, findReturn, probeIdx, structProbes, structure_ok, callLog>>
    /\ UNCHANGED <<findVars, pagVars, runVars, s3Vars, dmnVars, gapVars, scanVars>>

\* line 381: download_pagination_pages(node_path); what it raises leaves run
RunPagination ==
    /\ logicPc = "pagination"
    /\ callLog' = Append(callLog, Call("download_pagination_pages", sectionIdx, <<>>))
    /\ \E ok \in BOOLEAN : logicPc' = IF ok THEN "find" ELSE "raised"
    /\ UNCHANGED <<structSite, findReturn, probeIdx, structProbes, structure_ok, sectionIdx>>
    /\ UNCHANGED <<findVars, pagVars, runVars, s3Vars, dmnVars, gapVars, scanVars>>

\* line 385: missing_nodes = self.find_missing_nodes(node_path)
RunFind ==
    /\ logicPc = "find"
    /\ callLog' = Append(callLog, Call("find_missing_nodes", sectionIdx, <<>>))
    /\ \E ok \in BOOLEAN : logicPc' = IF ok THEN "download" ELSE "raised"
    /\ UNCHANGED <<structSite, findReturn, probeIdx, structProbes, structure_ok, sectionIdx>>
    /\ UNCHANGED <<findVars, pagVars, runVars, s3Vars, dmnVars, gapVars, scanVars>>

\* variant: download_missing_nodes called whatever the list holds
ShouldDownload_Always(missing) == TRUE

\* line 387: if missing_nodes:
ShouldDownload(missing) == missing # <<>>

\* lines 387-397, and the for loop going on to the next section or ending
RunDownload ==
    /\ logicPc = "download"
    /\ LET missing == findReturn[sectionIdx]
           next == IF sectionIdx < Len(NODE_PATHS) THEN "pagination" ELSE "returned"
       IN IF ShouldDownload(missing)
          THEN /\ callLog' = Append(callLog, Call("download_missing_nodes", sectionIdx, missing))
               /\ \E ok \in BOOLEAN :
                     /\ logicPc' = IF ok THEN next ELSE "raised"
                     /\ sectionIdx' = IF ok THEN sectionIdx + 1 ELSE sectionIdx
          ELSE /\ logicPc' = next
               /\ sectionIdx' = sectionIdx + 1
               /\ UNCHANGED callLog
    /\ UNCHANGED <<structSite, findReturn, probeIdx, structProbes, structure_ok>>
    /\ UNCHANGED <<findVars, pagVars, runVars, s3Vars, dmnVars, gapVars, scanVars>>

LogicNext ==
    \/ RunVerifyProbe
    \/ RunVerifyExhausted
    \/ RunGate
    \/ RunPagination
    \/ RunFind
    \/ RunDownload

----------------------------------------------------------------------------
(* Inputs of run *)

\* what HEAD /<section>/node/1 can do: 200, another status, RequestException
StructOutcomes == {"200", "404", "raise"}

\* lists find_missing_nodes may return: empty, one identifier, several
FoundLists == {<<>>, <<7>>, <<3, 9>>}

LogicInit ==
    /\ logicPc = "verify"
    /\ structSite \in [1..Len(NODE_PATHS) -> StructOutcomes]
    /\ findReturn \in [1..Len(NODE_PATHS) -> FoundLists]
    /\ probeIdx = 1
    /\ structProbes = <<>>
    /\ structure_ok = FALSE
    /\ sectionIdx = 0
    /\ callLog = <<>>

----------------------------------------------------------------------------
(* TortillaconsalBackupLogic.download_missing_nodes *)

\* line 312
batch_size == 50

\* the Python slice seq[a:b] of a list, for 0 <= a <= b
Slice(seq, a, b) == SubSeq(seq, a + 1, Min({b, Len(seq)}))

\* variant: each batch stops one entry short
Batch_DropsLast(nodes, i) == Slice(nodes, i, i + batch_size - 1)

\* line 315: batch = missing_nodes[i : i + batch_size]
Batch(nodes, i) == Slice(nodes, i, i + batch_size)

\* wget's exit status for a node page
NodeWgetStatus(node_num) == IF node_num \in nodeFails THEN 1 ELSE 0

\* lines 304-306: if not missing_nodes: return
DmnEnter ==
    /\ dmnPc = "start"
    /\ dmnPc' = IF nodes_in = <<>> THEN "returned" ELSE "batch_loop"
    /\ UNCHANGED <<nodes_in, nodeFails, batch_i, batch, batch_pos, inFlight, nodeWgets>>
    /\ UNCHANGED <<findVars, pagVars, runVars, s3Vars, logicVars, gapVars, scanVars>>

\* lines 314-320: for i in range(0, len(missing_nodes), batch_size)
DmnNextBatch ==
    /\ dmnPc = "batch_loop"
    /\ IF batch_i < Len(nodes_in)
       THEN /\ batch' = Batch(nodes_in, batch_i)
            /\ batch_pos' = 1
            /\ dmnPc' = "node_loop"
       ELSE /\ dmnPc' = "returned"
            /\ UNCHANGED <<batch, batch_pos>>
    /\ UNCHANGED <<nodes_in, nodeFails, batch_i, inFlight, nodeWgets>>
    /\ UNCHANGED <<findVars, pagVars, runVars, s3Vars, logicVars, gapVars, scanVars>>

\* lines 322-342: for node_num in batch: subprocess.run starts wget
DmnWgetStart ==
    /\ dmnPc = "node_loop"
    /\ batch_pos <= Len(batch)
    /\ nodeWgets' = Append(nodeWgets, [node_num |-> batch[batch_pos], returncode |-> -1])
    /\ inFlight' = inFlight + 1
    /\ dmnPc' = "waiting"
    /\ UNCHANGED <<nodes_in, nodeFails, batch_i, batch, batch_pos>>
    /\ UNCHANGED <<findVars, pagVars, runVars, s3Vars, logicVars, gapVars, scanVars>>

\* lines 342-351: subprocess.run returns when wget has exited; a non-zero
\* status is logged and the loop goes on
DmnWgetExit ==
    /\ dmnPc = "waiting"
    /\ nodeWgets' = [nodeWgets EXCEPT ![Len(nodeWgets)].returncode =
                                         NodeWgetStatus(batch[batch_pos])]
    /\ inFlight' = inFlight - 1
    /\ batch_pos' = batch_pos + 1
    /\ dmnPc' = "node_loop"
    /\ UNCHANGED <<nodes_in, nodeFails, batch_i, batch>>
    /\ UNCHANGED <<findVars, pagVars, runVars, s3Vars, logicVars, gapVars, scanVars>>

\* the batch is exhausted: the range loop steps by batch_size
DmnBatchEnd ==
    /\ dmnPc = "node_loop"
    /\ batch_pos > Len(batch)
    /\ batch_i' = batch_i + batch_size
    /\ dmnPc' = "batch_loop"
    /\ UNCHANGED <<nodes_in, nodeFails, batch, batch_pos, inFlight, nodeWgets>>
    /\ UNCHANGED <<findVars, pagVars, runVars, s3Vars, logicVars, gapVars, scanVars>>

DmnNext ==
    \/ DmnEnter
    \/ DmnNextBatch
    \/ DmnWgetStart
    \/ DmnWgetExit
    \/ DmnBatchEnd

----------------------------------------------------------------------------
(* Inputs of download_missing_nodes *)

\* the longest lists fill this many batches, and one entry more
MaxBatches == 2

\* list lengths: none, a few, and one below, at and above each batch boundary
DmnLengths ==
    {0, 1, 2} \cup {k * batch_size + d : k \in 1..MaxBatches, d \in {-1, 0, 1}}

\* ascending lists as find_missing_nodes returns them, and two lists that are
\* not ascending or hold an identifier twice
DmnLists == {Range(1, n + 1) : n \in DmnLengths} \cup {<<3, 1, 2>>, <<7, 7>>}

\* identifiers whose wget fails: none, the first, the last of the first
\* batch, one in each of two batches, all
DmnFailSets ==
    {{}, {1}, {batch_size}, {2, batch_size + 1}, 1..(MaxBatches * batch_size + 1)}

DmnInit ==
    /\ dmnPc = "start"
    /\ nodes_in \in DmnLists
    /\ nodeFails \in DmnFailSets
    /\ batch_i = 0
    /\ batch = <<>>
    /\ batch_pos = 0
    /\ inFlight = 0
    /\ nodeWgets = <<>>

----------------------------------------------------------------------------
(* The two reconciliation modes of find_missing_nodes on one input *)

\* lines 124-174 from one archived set: the intervals and the identifiers
\* found in them, after line 194
GapModeCall ==
    /\ ~gapDone
    /\ gaps_list' = GapsList(existing_in_backup, actualMaxIn)
    /\ gapMissing' = Sorted(SelectSeq(GapCandidates(existing_in_backup, actualMaxIn),
                                      LAMBDA n : ProbeNode(probeSite, n) = "ok"))
    /\ gapDone' = TRUE
    /\ UNCHANGED <<allDone, existing_in_backup, actualMaxIn, probeSite, allMissing>>
    /\ UNCHANGED <<findVars, pagVars, runVars, s3Vars, logicVars, dmnVars, scanVars>>

\* lines 175-194 on the same input
ExhaustiveModeCall ==
    /\ ~allDone
    /\ allMissing' = Sorted(SelectSeq(AllCandidates(existing_in_backup, actualMaxIn),
                                      LAMBDA n : ProbeNode(probeSite, n) = "ok"))
    /\ allDone' = TRUE
    /\ UNCHANGED <<gapDone, existing_in_backup, actualMaxIn, probeSite, gaps_list, gapMissing>>
    /\ UNCHANGED <<findVars, pagVars, runVars, s3Vars, logicVars, dmnVars, scanVars>>

GapNext == GapModeCall \/ ExhaustiveModeCall

----------------------------------------------------------------------------
(* Inputs of the two modes *)

\* largest identifier of the small archives and sites
MaxId == 4

\* archived sets: every non-empty set of small identifiers (0.html is a
\* node file too), and one with wide gaps
BackupSets == ((SUBSET (0..MaxId)) \ {{}}) \cup {{1, 2, 5, 100}}

\* live maxima below, inside and above the archived identifiers
LiveMaxima == (0..(MaxId + 1)) \cup {105}

\* sites: any set of small identifiers answers 200, the others do not; one
\* identifier may raise instead; one site answers 200 up to 105
ProbeSites ==
    {[reach |-> r, raises |-> x] : r \in SUBSET (1..(MaxId + 1)), x \in {{}, {3}}}
    \cup {[reach |-> 1..105, raises |-> {}]}

GapInit ==
    /\ gapDone = FALSE
    /\ allDone = FALSE
    /\ existing_in_backup \in BackupSets
    /\ actualMaxIn \in LiveMaxima
    /\ probeSite \in ProbeSites
    /\ gaps_list = <<>>
    /\ gapMissing = <<>>
    /\ allMissing = <<>>

----------------------------------------------------------------------------
(* __init__ and the Backup Node-Set Scanner over the directories of the archive *)

\* urlparse(url).netloc: the host exactly as the URL gives it
Netloc(host) == host

\* f"www.{self.domain}"
WwwOf(domain) == <<"www">> \o domain

\* lines 30-33: node_dir_patterns
NodeDirPatterns(domain) == <<domain, WwwOf(domain)>>

\* <section>/node/ under the directory of download_dir named like the host
NodeDirOf(archive, name) ==
    IF name \in DOMAIN archive THEN archive[name] ELSE [exists |-> FALSE, files |-> {}]

\* lines 18-24
ScanConstruct ==
    /\ scanPc = "init"
    /\ self_domain' = Netloc(url_host)
    /\ scanPc' = "scan"
    /\ UNCHANGED <<url_host, archiveDirs, scannedNodes>>
    /\ UNCHANGED <<findVars, pagVars, runVars, s3Vars, logicVars, dmnVars, gapVars>>

\* lines 29-41
ScanDirs ==
    /\ scanPc = "scan"
    /\ LET patterns == NodeDirPatterns(self_domain)
       IN scannedNodes' =
             BackupNodes([i \in 1..Len(patterns) |-> NodeDirOf(archiveDirs, patterns[i])])
    /\ scanPc' = "scanned"
    /\ UNCHANGED <<url_host, archiveDirs, self_domain>>
    /\ UNCHANGED <<findVars, pagVars, runVars, s3Vars, logicVars, dmnVars, gapVars>>

ScanNext == ScanConstruct \/ ScanDirs

----------------------------------------------------------------------------
(* Inputs of the scan *)

\* target hosts: without and with the leading www.
Hosts == {<<"example", "com">>, <<"www", "example", "com">>}

\* what a <section>/node/ directory may hold, by the stems of its .html files
NodeDirChoices(stems) ==
    {[exists |-> FALSE, files |-> {}]}
    \cup {[exists |-> TRUE, files |-> {File(st, ".html", TRUE) : st \in S}] : S \in SUBSET stems}

\* archives: the bare-domain directory, the www. directory, and the
\* directory named www.www.<domain>
Archives ==
    {[d \in {<<"example", "com">>, <<"www", "example", "com">>,
              <<"www", "www", "example", "com">>} |->
         IF d = <<"example", "com">> THEN b
         ELSE IF d = <<"www", "example", "com">> THEN w ELSE x]
       : b \in NodeDirChoices({<<"1">>, <<"2">>}),
         w \in NodeDirChoices({<<"3">>, <<"a">>}),
         x \in NodeDirChoices({<<"9">>})}

ScanInit ==
    /\ scanPc = "init"
    /\ url_host \in Hosts
    /\ archiveDirs \in Archives
    /\ self_domain = <<>>
    /\ scannedNodes = {}

----------------------------------------------------------------------------
(* Specifications: each exercises one part and leaves the others idle *)

FindIdle ==
    /\ findPc = "idle"
    /\ node_path = ""
    /\ node_dirs = <<>>
    /\ homepage = [kind |-> "raise", status |-> 0, links |-> {}]
    /\ archivos = [kind |-> "raise", status |-> 0, links |-> {}]
    /\ nodeSite = [reach |-> {}, raises |-> {}]
    /\ missing_nodes = <<>>
    /\ getLog = <<>>
    /\ headLog = <<>>
    /\ scrapedMax = 0
    /\ forwardLog = <<>>
    /\ candidateLog = <<>>
    /\ live_max = 0
    /\ findOutcome = ""

PagIdle ==
    /\ pagPc = "idle"
    /\ pageSite = [top |-> -1, holes |-> {}, extras |-> {}, raises |-> {}]
    /\ wgetFails = {}
    /\ low = 0
    /\ high = 0
    /\ powerIdx = 0
    /\ max_pages = 0
    /\ page = 0
    /\ downloaded = 0
    /\ pageProbes = <<>>
    /\ searchProbes = 0
    /\ wgetPages = <<>>
    /\ pagReturn = ""

S3Idle ==
    /\ s3Pc = "idle"
    /\ s3_folder = ""
    /\ local_dir = [exists |-> FALSE, files |-> {}, dirs |-> {}]
    /\ credChecks = 0
    /\ is_valid = FALSE
    /\ s3Calls = <<>>
    /\ pending = {}

LogicIdle ==
    /\ logicPc = "idle"
    /\ structSite = <<>>
    /\ findReturn = <<>>
    /\ probeIdx = 0
    /\ structProbes = <<>>
    /\ structure_ok = FALSE
    /\ sectionIdx = 0
    /\ callLog = <<>>

DmnIdle ==
    /\ dmnPc = "idle"
    /\ nodes_in = <<>>
    /\ nodeFails = {}
    /\ batch_i = 0
    /\ batch = <<>>
    /\ batch_pos = 0
    /\ inFlight = 0
    /\ nodeWgets = <<>>

GapIdle ==
    /\ gapDone = TRUE
    /\ allDone = TRUE
    /\ existing_in_backup = {}
    /\ actualMaxIn = 0
    /\ probeSite = [reach |-> {}, raises |-> {}]
    /\ gaps_list = <<>>
    /\ gapMissing = <<>>
    /\ allMissing = <<>>

ScanIdle ==
    /\ scanPc = "idle"
    /\ url_host = <<>>
    /\ archiveDirs = <<>>
    /\ self_domain = <<>>
    /\ scannedNodes = {}

RunIdle ==
    /\ mainPc = "idle"
    /\ enable_node_detection = FALSE
    /\ detailed_errors = <<>>
    /\ emails = <<>>
    /\ toolLog = <<>>
    /\ touchLog = <<>>
    /\ articles = NoArticles
    /\ logicLog = <<>>
    /\ exitCode = -1
    /\ dirExists = FALSE
    /\ marker = FALSE
    /\ pollPc = "idle"
    /\ timeout = 0
    /\ check_interval = 1
    /\ elapsed = 0
    /\ last_status_time = 0
    /\ unlinks = 0
    /\ pollSaw = FALSE
    /\ fallback = NoFallback
    /\ pollExit = -1
    /\ runNo = 0

\* find_missing_nodes on every modelled archive, listing and site
SpecFindInit == FindInit /\ PagIdle /\ RunIdle /\ S3Idle /\ LogicIdle /\ DmnIdle /\ GapIdle /\ ScanIdle
SpecFindNext == FindCall
SpecFind == SpecFindInit /\ [][SpecFindNext]_vars

\* download_pagination_pages on every modelled site
SpecPagInit == PagInit /\ FindIdle /\ RunIdle /\ S3Idle /\ LogicIdle /\ DmnIdle /\ GapIdle /\ ScanIdle
SpecPagNext == PagNext
SpecPag == SpecPagInit /\ [][SpecPagNext]_vars
\* every blocking call returns (HTTP and wget carry timeouts)
FairSpecPag == SpecPag /\ WF_vars(SpecPagNext)

\* one run of main and its poller, as two processes on one filesystem
SpecRunInit == RunInit /\ FindIdle /\ PagIdle /\ S3Idle /\ LogicIdle /\ DmnIdle /\ GapIdle /\ ScanIdle
SpecRunNext == MainNext \/ PollNext
SpecRun == SpecRunInit /\ [][SpecRunNext]_vars
\* both processes keep running until they exit
FairSpecRun == SpecRun /\ WF_vars(MainNext) /\ WF_vars(PollNext)
\* the poller keeps running until it exits; the run may stall at any point
FairSpecPoll == SpecRun /\ WF_vars(PollNext)

\* successive runs, each with its poller, on one download directory
SpecRunsInit == SpecRunInit
SpecRunsNext == MainNext \/ PollNext \/ NextRun
SpecRuns == SpecRunsInit /\ [][SpecRunsNext]_vars

\* the S3 upload command on every modelled local directory
SpecS3Init == S3Init /\ FindIdle /\ PagIdle /\ RunIdle /\ LogicIdle /\ DmnIdle /\ GapIdle /\ ScanIdle
SpecS3Next == S3Next
SpecS3 == SpecS3Init /\ [][SpecS3Next]_vars

\* run on every modelled structure probe outcome and find result
SpecLogicInit == LogicInit /\ FindIdle /\ PagIdle /\ RunIdle /\ S3Idle /\ DmnIdle /\ GapIdle /\ ScanIdle
SpecLogicNext == LogicNext
SpecLogic == SpecLogicInit /\ [][SpecLogicNext]_vars

\* download_missing_nodes on every modelled list and set of failing pages
SpecDmnInit == DmnInit /\ FindIdle /\ PagIdle /\ RunIdle /\ S3Idle /\ LogicIdle /\ GapIdle /\ ScanIdle
SpecDmnNext == DmnNext
SpecDmn == SpecDmnInit /\ [][SpecDmnNext]_vars

\* both reconciliation modes on every modelled archive, maximum and site
SpecGapInit == GapInit /\ FindIdle /\ PagIdle /\ RunIdle /\ S3Idle /\ LogicIdle /\ DmnIdle /\ ScanIdle
SpecGapNext == GapNext
SpecGap == SpecGapInit /\ [][SpecGapNext]_vars

\* the scan for every modelled host and archive
SpecScanInit == ScanInit /\ FindIdle /\ PagIdle /\ RunIdle /\ S3Idle /\ LogicIdle /\ DmnIdle
                         /\ GapIdle
SpecScanNext == ScanNext
SpecScan == SpecScanInit /\ [][SpecScanNext]_vars

Init == SpecRunInit
Next == SpecRunNext
Spec == SpecRun

----------------------------------------------------------------------------
(* Claims about find_missing_nodes (checked under SpecFind) *)

\* the archive holds at least one regular file named <digits>.html
HasNodeFile ==
    \E i \in 1..Len(node_dirs) :
        /\ node_dirs[i].exists
        /\ \E f \in node_dirs[i].files : f.is_file /\ MatchesNodeFile(f)

\* C1: small-range reconciliation is exact: when the live maximum is at most
\* 1000 and the archive is not empty, the returned list holds exactly the
\* identifiers of 1..live_max that are not archived and whose HEAD probe
\* returned 200, strictly ascending and without duplicates.
C1_SmallRangeExact ==
    (findPc = "returned" /\ findOutcome = "reconciled" /\ live_max <= GapThreshold)
    => LET archived == BackupNodes(node_dirs)
       IN /\ IsStrictlyAscending(missing_nodes)
          /\ SeqToSet(missing_nodes) =
                {n \in 1..live_max : /\ n \notin archived
                                     /\ ProbeNode(nodeSite, n) = "ok"}

\* archive {1,2,5}, live maximum 10, every probe in 1..10 succeeding
C1_Witness ==
    /\ findPc = "returned"
    /\ BackupNodes(node_dirs) = {1, 2, 5}
    /\ live_max = 10
    /\ missing_nodes = <<3, 4, 6, 7, 8, 9, 10>>

\* C2: when no archived file matches <digits>.html (directories missing or
\* empty), find_missing_nodes returns the empty list and issues no HTTP
\* request: no GET scrape and no HEAD probe.
C2_EmptyArchiveNoRequests ==
    (findPc = "returned" /\ ~HasNodeFile)
    => /\ missing_nodes = <<>>
       /\ getLog = <<>>
       /\ headLog = <<>>

\* an archive with only non-matching entries, on a site that would answer
C2_Witness ==
    /\ findPc = "returned"
    /\ ~HasNodeFile
    /\ node_dirs[2].exists /\ node_dirs[2].files # {}
    /\ homepage.kind = "response" /\ homepage.status = 200
    /\ ScrapeIds(node_path, homepage.links) # {}
    /\ nodeSite.reach # {}

----------------------------------------------------------------------------
(* Claims about download_pagination_pages (checked under SpecPag) *)

\* discovery ran to its end: page 0 was reachable and max_pages was assigned
Discovered == pagReturn \in {"only_page0", "completed"}

\* C5 as stated: after discovery, for every max_pages >= 0, the mirroring tool
\* is invoked exactly max_pages + 1 times, once per page 0..max_pages in
\* ascending order.
C5_Original ==
    (pagPc = "done" /\ Discovered) => wgetPages = Range(0, max_pages + 1)

\* C5 amended: for max_pages >= 1 the mirroring tool is invoked exactly
\* max_pages + 1 times, once per page 0..max_pages in ascending order, failed
\* invocations neither stopping nor repeating the rest; for max_pages = 0 (only
\* page 0 exists) and for an unreachable page 0 it is not invoked at all.
C5_DownloadsEveryPage ==
    pagPc = "done"
    => /\ (pagReturn = "completed")
             => (max_pages >= 1 /\ wgetPages = Range(0, max_pages + 1))
       /\ (pagReturn = "only_page0") => (max_pages = 0 /\ wgetPages = <<>>)
       /\ (pagReturn = "no_pagination") => wgetPages = <<>>

\* pages 0..5 reachable, the fetches of pages 1 and 2 failing: 6 invocations
C5_Witness ==
    /\ pagPc = "done"
    /\ pagReturn = "completed"
    /\ max_pages = 5
    /\ wgetFails = {1, 2}
    /\ Len(wgetPages) = 6
    /\ downloaded = 4

\* C6 as stated: for every k >= 0, on a site whose pages 0..k are reachable
\* and every page above k is not, discovery computes max_pages = k.
C6_Original ==
    (pagPc = "done" /\ Discovered /\ IsContiguous(pageSite))
    => max_pages = pageSite.top

\* C6 amended: on a site whose pages 0..k are reachable and every page above
\* k is not, discovery computes max_pages = k for every k in 0..1000, and
\* max_pages = 1000 for every k above 1000 (the last bound candidate).
C6_FindsLargestReachable ==
    (pagPc = "done" /\ Discovered /\ IsContiguous(pageSite))
    => max_pages = (IF pageSite.top <= InitialHigh THEN pageSite.top ELSE InitialHigh)

\* a site of 500 pages (0..499), found by the binary search between 100 and 500
C6_Witness ==
    /\ pagPc = "done"
    /\ IsContiguous(pageSite)
    /\ pageSite.top = 499
    /\ max_pages = 499
    /\ searchProbes > 0

\* C7: for any assignment of probe outcomes to page indices, max_pages is an
\* index that was probed in this call and whose probe returned 200.
C7_ResultWasProbedOk ==
    (Discovered \/ pagPc = "download")
    => /\ \E i \in 1..Len(pageProbes) : pageProbes[i] = max_pages
       /\ ProbePage(pageSite, max_pages) = "ok"

\* a non-contiguous site: the search settled below an unreachable index
C7_Witness ==
    /\ pagPc = "done"
    /\ pagReturn = "completed"
    /\ ~IsContiguous(pageSite)
    /\ max_pages < pageSite.top
    /\ searchProbes > 0

\* C8: the binary-search loop terminates for every assignment of probe
\* outcomes: every iteration shrinks high - low to at most half, low never
\* passes high, at most 10 probes are made, and the call returns.
C8_SearchTerminates ==
    /\ [][(pagPc = "search" /\ low < high)
            => (2 * (high' - low') <= high - low /\ low' <= high')]_vars
    /\ [](searchProbes <= 10)
    /\ [](pagPc = "search" => <>(pagPc # "search" /\ low = high))

\* the longest search: 9 probes between 500 and 1000
C8_Witness ==
    /\ pagPc = "done"
    /\ searchProbes = 9
    /\ low = high

----------------------------------------------------------------------------
(* Claims about the completion marker (checked under SpecRun / FairSpecRun) *)

\* C3 as stated: every run of main ends with the completion marker created,
\* whether it completes cleanly or fails at any step.
C3_Original ==
    mainPc = "done" => \E i \in 1..Len(touchLog) : touchLog[i].ok

\* C3 amended: every run of main terminates, and when it does it has attempted
\* to create the marker exactly once, on the success path or on the failure
\* path; the marker is present at that moment if that touch succeeded (a touch
\* that fails, e.g. because the download directory is missing, is only logged).
C3_MarkerAlwaysAttempted ==
    /\ <>(mainPc = "done")
    /\ [][(mainPc # "done" /\ mainPc' = "done")
            => (Len(touchLog') = 1 /\ (touchLog'[1].ok => marker'))]_vars

\* a run that failed before the mirror download and still wrote the marker
C3_Witness ==
    /\ mainPc = "done"
    /\ exitCode = 1
    /\ toolLog = <<>>
    /\ Len(touchLog) = 1
    /\ touchLog[1].ok

\* C4: within one run main touches the marker at most once (never on both
\* paths) and the poller deletes it at most once; once the poller has
\* unlinked the marker it does nothing but exit.
C4_TouchedAndDeletedOnce ==
    /\ Len(touchLog) <= 1
    /\ unlinks <= 1
    /\ (unlinks = 1 => pollPc \in {"exit_found", "exited"})

\* main has touched, the poller has deleted and exited
C4_Witness ==
    /\ Len(touchLog) = 1
    /\ unlinks = 1
    /\ pollPc = "exited"
    /\ mainPc = "done"

C10_TimeoutFallback ==
    (pollPc = "exited" /\ fallback.ran)
    => /\ (pollExit = 0) <=> (fallback.mtime = "ok" /\ fallback.age < 3600)
       /\ (pollExit # 0) => pollExit = 1
       /\ unlinks = 0
       /\ ~pollSaw

\* a directory modified just under an hour ago: the poller proceeds
C10_Witness ==
    /\ pollPc = "exited"
    /\ fallback.ran
    /\ fallback.mtime = "ok"
    /\ fallback.age = 3599
    /\ pollExit = 0
    /\ elapsed >= timeout

-----------------------------------------------------------------------------
(* Claims about main's error handling (checked under SpecRun) *)

\* C11: get_articles returns normally when the mirroring tool exits with code
\* 0 or 8 and raises CalledProcessError for every other exit code.
C11_OnlyZeroAndEightAccepted ==
    articles.ran =>
        /\ (articles.rc \in {0, 8} => articles.outcome = "returned")
        /\ (articles.rc \notin {0, 8} => articles.outcome = "CalledProcessError")

\* the mirroring tool has exited with a code other than 0 and 8 and
\* get_articles has raised
C11_Witness ==
    /\ articles.ran
    /\ articles.rc = 4
    /\ articles.outcome = "CalledProcessError"
    /\ mainPc = "failure_email"

\* the steps whose failure main re-raises
CriticalTags == {"Logging setup failed", "Directory change failed", "Wget download failed"}

HasIssue(tags) == \E i \in 1..Len(detailed_errors) : detailed_errors[i] \in tags

EmailKinds == {emails[i].kind : i \in 1..Len(emails)}

\* C12 as stated: after a critical failure (logging setup, directory change,
\* mirroring tool) a failure notification is attempted, no success notification
\* is sent, the completion marker is written and the exit code is non-zero.
C12_Original ==
    (mainPc = "done" /\ HasIssue(CriticalTags)) =>
        /\ EmailKinds = {"failure"}
        /\ \E i \in 1..Len(touchLog) : touchLog[i].ok
        /\ exitCode # 0 /\ exitCode # -1

\* C12 amended: a critical failure aborts the run (nothing but the exception
\* handler runs after it: no reconciliation, no further tool invocation); the
\* run ends with exactly one failure notification attempted, no success
\* notification, exactly one marker touch attempted on the failure path (which
\* may itself fail and is then only logged) and a non-zero exit code.
C12_CriticalFailureAborts ==
    HasIssue(CriticalTags) =>
        /\ mainPc \in {"failure_email", "failure_touch", "done"}
        /\ logicLog = <<>>
        /\ Len(detailed_errors) = 1
        /\ Len(toolLog) <= 1
        /\ mainPc = "done" =>
              /\ Len(emails) = 1 /\ EmailKinds = {"failure"}
              /\ Len(touchLog) = 1 /\ touchLog[1].path = "failure"
              /\ exitCode = 1

\* the mirroring tool failed hard with node detection enabled; the run ended
\* on the failure path
C12_Witness ==
    /\ mainPc = "done"
    /\ articles.outcome = "CalledProcessError"
    /\ enable_node_detection
    /\ EmailKinds = {"failure"}
    /\ exitCode = 1

\* C13 as stated: an exception raised by reconciliation does not abort the
\* run: it is recorded as a non-critical issue, the success notification
\* carries it, the completion marker is written and the exit code is 0.
C13_Original ==
    (mainPc = "done" /\ HasIssue({"Missing nodes check failed"})) =>
        /\ Len(emails) = 1 /\ emails[1].kind = "success"
        /\ "Missing nodes check failed" \in {emails[1].issues[i] : i \in 1..Len(emails[1].issues)}
        /\ \E i \in 1..Len(touchLog) : touchLog[i].ok
        /\ exitCode = 0

\* C13 amended: once reconciliation has raised, main stays on the success
\* path; the run ends with one success notification attempted that lists the
\* issue, one marker touch attempted on the success path (a failing touch is
\* only logged) and exit code 0.
C13_ReconcileFailureTolerated ==
    HasIssue({"Missing nodes check failed"}) =>
        /\ mainPc \in {"success_email", "success_touch", "done"}
        /\ detailed_errors = <<"Missing nodes check failed">>
        /\ mainPc = "done" =>
              /\ Len(emails) = 1 /\ emails[1].kind = "success"
              /\ emails[1].issues = <<"Missing nodes check failed">>
              /\ Len(touchLog) = 1 /\ touchLog[1].path = "success"
              /\ exitCode = 0

\* reconciliation raised and the run ended with exit code 0
C13_Witness ==
    /\ mainPc = "done"
    /\ logicLog = <<"construct", "run">>
    /\ detailed_errors = <<"Missing nodes check failed">>
    /\ exitCode = 0

\* C14: every run attempts exactly one notification email, a success email
\* if and only if the run exits 0 and a failure email otherwise, whether or
\* not the email is delivered and the marker touch succeeds.
C14_ExactlyOneEmail ==
    /\ Len(emails) <= 1
    /\ mainPc = "done" =>
          /\ Len(emails) = 1
          /\ emails[1].kind = "success" <=> exitCode = 0
          /\ emails[1].kind = "failure" <=> exitCode = 1

\* a run that exited 0 although neither the email was delivered nor the
\* marker written
C14_Witness ==
    /\ mainPc = "done"
    /\ exitCode = 0
    /\ Len(emails) = 1 /\ ~emails[1].delivered
    /\ Len(touchLog) = 1 /\ ~touchLog[1].ok

-----------------------------------------------------------------------------
(* Claims about the S3 upload command (checked under SpecS3) *)

\* positions of the upload calls and of the listing calls among the boto3 calls
UploadCalls == {i \in 1..Len(s3Calls) : s3Calls[i].op = "upload_file"}

ListCalls == {i \in 1..Len(s3Calls) : s3Calls[i].op = "list_buckets"}

\* C15: the credential check happens exactly once, with at most one listing
\* call, and before any upload; when it fails, for whatever reason, no upload
\* call is issued and the command returns.
C15_CredentialCheckGates ==
    /\ credChecks <= 1
    /\ Cardinality(ListCalls) <= 1
    /\ s3Pc \in {"upload_dir", "uploading", "done"} => credChecks = 1
    /\ UploadCalls # {} =>
          /\ credChecks = 1 /\ is_valid
          /\ ListCalls = {1}
    /\ (credChecks = 1 /\ ~is_valid) => (UploadCalls = {} /\ s3Pc = "done")

\* the check passed with its one listing call and two or more uploads followed
C15_Witness ==
    /\ s3Pc = "done"
    /\ credChecks = 1
    /\ is_valid
    /\ Cardinality(UploadCalls) >= 2

\* C16 as stated: when no upload fails, upload_directory_to_s3 issues exactly
\* one upload call for every regular file anywhere under the local directory,
\* with key <s3_folder>/<path relative to the local directory>, whatever the
\* mix of top-level files and subdirectories.
C16_Original ==
    (s3Pc = "done" /\ is_valid /\ local_dir.exists) =>
        /\ \A f \in local_dir.files :
              Cardinality({i \in UploadCalls : s3Calls[i].key = <<s3_folder>> \o f}) = 1
        /\ Cardinality(UploadCalls) = Cardinality(local_dir.files)

----------------------------------------------------------------------------
(* Claims about run (checked under SpecLogic) *)

\* verify_node_structure has returned
StructureChecked == logicPc \notin {"idle", "verify"}

\* C17: run is gated by the structure check: verify_node_structure returns
\* False exactly when no section's node/1 probe returned 200, and then run
\* returns without calling download_pagination_pages, find_missing_nodes or
\* download_missing_nodes for any section.
C17_GatedByStructureCheck ==
    StructureChecked =>
        /\ structure_ok <=> \E i \in 1..Len(NODE_PATHS) : structSite[i] = "200"
        /\ ~structure_ok => (callLog = <<>> /\ logicPc \in {"gate", "returned"})

\* every section was probed, none returned 200, run returned having called nothing
C17_Witness ==
    /\ logicPc = "returned"
    /\ ~structure_ok
    /\ structProbes = NODE_PATHS
    /\ structSite = <<"raise", "404">>
    /\ callLog = <<>>

\* the calls of one section: pagination, find, and download for a non-empty list
SectionCalls(i) ==
    <<Call("download_pagination_pages", i, <<>>), Call("find_missing_nodes", i, <<>>)>>
    \o (IF findReturn[i] = <<>> THEN <<>>
        ELSE <<Call("download_missing_nodes", i, findReturn[i])>>)

\* bitacora's calls, then tortilla's
ExpectedCalls == SectionCalls(1) \o SectionCalls(2)

IsPrefix(a, b) == Len(a) <= Len(b) /\ a = SubSeq(b, 1, Len(a))

\* C18: when the structure check passes, run goes through bitacora then
\* tortilla, calling for each download_pagination_pages once, then
\* find_missing_nodes once, then download_missing_nodes once if and only if
\* the returned list is non-empty, a section ending before the next begins.
C18_SectionsInOrder ==
    (StructureChecked /\ structure_ok) =>
        /\ NODE_PATHS = <<"bitacora", "tortilla">>
        /\ IsPrefix(callLog, ExpectedCalls)
        /\ logicPc = "returned" => callLog = ExpectedCalls

\* run returned after a section with nothing missing and one with two missing
C18_Witness ==
    /\ logicPc = "returned"
    /\ structure_ok
    /\ findReturn = <<(<<>>), <<3, 9>>>>
    /\ Len(callLog) = 5

----------------------------------------------------------------------------
(* Claims about download_missing_nodes (checked under SpecDmn) *)

\* the identifiers wget was invoked for, in order of invocation
Invoked == [i \in 1..Len(nodeWgets) |-> nodeWgets[i].node_num]

\* C19: download_missing_nodes invokes the mirroring tool once per entry of
\* the list, in list order and one at a time, whatever the length of the list
\* and whichever invocations fail; an empty list causes no invocation.
C19_OneWgetPerEntry ==
    /\ inFlight <= 1
    /\ IsPrefix(Invoked, nodes_in)
    /\ dmnPc = "returned" => (Invoked = nodes_in /\ inFlight = 0)

\* a list spanning more than one batch was downloaded, the last entry of the
\* first batch having failed
C19_Witness ==
    /\ dmnPc = "returned"
    /\ Len(nodes_in) > batch_size
    /\ Len(nodeWgets) = Len(nodes_in)
    /\ nodeWgets[batch_size].returncode = 1
    /\ nodeWgets[batch_size + 1].returncode = 0

----------------------------------------------------------------------------
(* Further claims about find_missing_nodes (checked under SpecFind) *)

\* C21: the forward extension probes m, m+1, ... in order from the scraped
\* maximum m, stops at the first probe that is not 200 or raises, and issues
\* at most 200 probes; the estimate e satisfies m <= e <= m+199, every
\* identifier of m+1..e returned 200, and e = m when the probe of m fails.
C21_ForwardExtension ==
    (findPc = "returned" /\ findOutcome = "reconciled") =>
        LET m == scrapedMax
            e == live_max
            k == Len(forwardLog)
        IN /\ 1 <= k /\ k <= 200
           /\ forwardLog = [i \in 1..k |-> m + i - 1]
           /\ \A i \in 1..(k - 1) : ProbeNode(nodeSite, forwardLog[i]) = "ok"
           /\ k < 200 => ProbeNode(nodeSite, forwardLog[k]) # "ok"
           /\ m <= e /\ e <= m + 199
           /\ \A n \in (m + 1)..e : ProbeNode(nodeSite, n) = "ok"
           /\ ProbeNode(nodeSite, m) # "ok" => e = m

\* every one of the 200 forward probes returned 200
C21_Witness ==
    /\ findPc = "returned"
    /\ findOutcome = "reconciled"
    /\ Len(forwardLog) = 200
    /\ live_max = scrapedMax + 199

\* the listing GETs that contributed nothing
HomepageFailed == homepage.kind = "raise" \/ homepage.status >= 400

ArchivosFailed ==
    node_path # "bitacora" \/ archivos.kind = "raise" \/ archivos.status # 200

\* C22: no HTTP failure escapes find_missing_nodes: a failed listing GET
\* contributes no identifier (the result is empty when nothing is scraped at
\* all), an identifier whose HEAD probe raises or is not 200 is never
\* returned, and the reconciliation probes no candidate twice.
C22_FailuresSwallowed ==
    findPc = "returned" =>
        /\ findOutcome \in {"skipped", "no_live", "reconciled"}
        /\ (HasNodeFile /\ HomepageFailed /\ ArchivosFailed) =>
              (findOutcome = "no_live" /\ missing_nodes = <<>> /\ headLog = <<>>)
        /\ (findOutcome = "reconciled" /\ HomepageFailed) =>
              scrapedMax \in {l.id : l \in archivos.links}
        /\ (findOutcome = "reconciled" /\ ArchivosFailed) =>
              scrapedMax \in {l.id : l \in {k \in homepage.links : k.path = node_path}}
        /\ \A i \in 1..Len(missing_nodes) : ProbeNode(nodeSite, missing_nodes[i]) = "ok"
        /\ Cardinality(SeqToSet(candidateLog)) = Len(candidateLog)

\* the homepage GET failed with links in its body, archivos.html answered,
\* and a candidate whose HEAD probe raised was left out of the result
C22_Witness ==
    /\ findPc = "returned"
    /\ findOutcome = "reconciled"
    /\ homepage.kind = "response" /\ homepage.status = 404 /\ homepage.links # {}
    /\ scrapedMax = 12
    /\ 4 \in nodeSite.raises
    /\ 4 \in SeqToSet(candidateLog)
    /\ 4 \notin SeqToSet(missing_nodes)
    /\ missing_nodes # <<>>

\* C24 as stated: in both modes every identifier the reconciliation probes,
\* and so every returned identifier, lies in 1..live_max, whatever the
\* archived set (also one holding identifiers above live_max).
C24_Original ==
    (findPc = "returned" /\ findOutcome = "reconciled") =>
        /\ \A i \in 1..Len(candidateLog) :
              1 <= candidateLog[i] /\ candidateLog[i] <= live_max
        /\ \A i \in 1..Len(missing_nodes) :
              1 <= missing_nodes[i] /\ missing_nodes[i] <= live_max

\* C25: in both modes the returned list is strictly ascending (so without
\* duplicates), holds no archived identifier, and holds only identifiers
\* whose HEAD probe returned 200 during the call.
C25_ResultInvariants ==
    (findPc = "returned" /\ findOutcome = "reconciled") =>
        LET archived == BackupNodes(node_dirs)
            probed   == SeqToSet(candidateLog)
        IN /\ IsStrictlyAscending(missing_nodes)
           /\ \A i \in 1..Len(missing_nodes) :
                 /\ missing_nodes[i] \notin archived
                 /\ missing_nodes[i] \in probed
                 /\ ProbeNode(nodeSite, missing_nodes[i]) = "ok"

\* the gap-interval mode on archive {1,2,5} returned identifiers
C25_Witness ==
    /\ findPc = "returned"
    /\ findOutcome = "reconciled"
    /\ live_max > GapThreshold
    /\ BackupNodes(node_dirs) = {1, 2, 5}
    /\ Len(missing_nodes) > 2

----------------------------------------------------------------------------
(* Claims about the gap intervals and the two modes (checked under SpecGap) *)

\* n lies in the half-open interval g = (start, end)
InGap(n, g) == g[1] <= n /\ n < g[2]

\* C23: the gap interval list of a non-empty archived set is sorted
\* ascending, its half-open intervals are non-empty and pairwise disjoint,
\* none contains an archived identifier, and together they contain every
\* non-archived identifier of 1..live_max; archive {1,2,5,100} with live
\* maximum 105 gives [(3,5),(6,100),(101,106)].
C23_GapIntervals ==
    gapDone =>
        LET g == gaps_list
        IN /\ \A i \in 1..Len(g) : g[i][1] < g[i][2]
           /\ \A i \in 1..(Len(g) - 1) : g[i][2] <= g[i + 1][1]
           /\ \A i \in 1..Len(g) : \A a \in existing_in_backup : ~InGap(a, g[i])
           /\ \A n \in (1..actualMaxIn) \ existing_in_backup :
                 \E i \in 1..Len(g) : InGap(n, g[i])
           /\ (existing_in_backup = {1, 2, 5, 100} /\ actualMaxIn = 105) =>
                 g = <<(<<3, 5>>), <<6, 100>>, <<101, 106>>>>

\* the worked example: head-less archive {1,2,5,100}, live maximum 105
C23_Witness ==
    /\ gapDone
    /\ existing_in_backup = {1, 2, 5, 100}
    /\ actualMaxIn = 105
    /\ Len(gaps_list) = 3

\* C30: when every archived identifier lies in 1..live_max, probing only the
\* gap intervals returns the same list as probing every non-archived
\* identifier of 1..live_max, whatever the probes answer.
C30_ModesAgree ==
    (gapDone /\ allDone /\ existing_in_backup \subseteq 1..actualMaxIn) =>
        gapMissing = allMissing

\* both modes ran on an archive with a head gap, an inner gap and a tail gap
\* and returned the same non-empty list
C30_Witness ==
    /\ gapDone /\ allDone
    /\ existing_in_backup = {2, 4}
    /\ actualMaxIn = 5
    /\ gapMissing = <<1, 3, 5>>
    /\ allMissing = <<1, 3, 5>>

----------------------------------------------------------------------------
(* Claims about the archive scan (checked under SpecScan) *)

\* the host without a leading www.
BareDomain(host) == IF host # <<>> /\ host[1] = "www" THEN Tail(host) ELSE host

\* C26 as stated: for every target host, with or without a leading www., the
\* archived set is the union of the <digits>.html regular files of the
\* bare-domain and of the www.-prefixed <section>/node/ directories.
C26_Original ==
    scanPc = "scanned" =>
        scannedNodes = DirNodes(NodeDirOf(archiveDirs, BareDomain(url_host)))
                       \cup DirNodes(NodeDirOf(archiveDirs, WwwOf(BareDomain(url_host))))

-----------------------------------------------------------------------------
(* Claims about the completion marker and the poller (checked under SpecRun
   and FairSpecPoll) *)

\* C27: the completion marker is written only after all subprocess work of the
\* run is over: at the touch the mirror invocation and the reconciliation (when
\* enabled and reached) have returned and the e-mail has been sent, main is in
\* its terminal state from the touch on, and no mirror, fetch, reconciliation
\* or mail invocation is added once a touch has been attempted.
C27_MarkerAfterAllWork ==
    /\ [](touchLog # <<>> =>
            /\ mainPc = "done"
            /\ Len(emails) = 1
            /\ (touchLog[1].path = "success" =>
                  /\ articles.outcome = "returned"
                  /\ toolLog # <<>> /\ toolLog[1] = "mirror"
                  /\ (enable_node_detection => logicLog = <<"construct", "run">>)))
    /\ [][touchLog # <<>> =>
            /\ toolLog' = toolLog
            /\ logicLog' = logicLog
            /\ emails' = emails
            /\ touchLog' = touchLog]_vars

\* a successful run with reconciliation fetches whose marker is written while
\* the poller is still waiting
C27_Witness ==
    /\ mainPc = "done"
    /\ marker
    /\ touchLog = <<[path |-> "success", ok |-> TRUE]>>
    /\ Len(toolLog) = 1 + MaxFetches
    /\ logicLog = <<"construct", "run">>
    /\ pollPc \in {"loop", "sleep"}

\* the number of time.sleep calls so far: elapsed grows by check_interval each
Sleeps == elapsed \div check_interval

\* ceil(timeout / check_interval)
CeilDiv(a, b) == (a + b - 1) \div b

\* C28: for every timeout >= 0 and check interval >= 1 the poller terminates,
\* whether or not the run ever writes the marker (or even finishes), after at
\* most ceil(timeout / check_interval) sleeps and with an elapsed counter that
\* never exceeds timeout + check_interval - 1.
C28_PollerTerminates ==
    /\ <>(pollPc = "exited")
    /\ [](/\ Sleeps * check_interval = elapsed
          /\ Sleeps <= CeilDiv(timeout, check_interval)
          /\ elapsed <= timeout + check_interval - 1)

\* the poller has exited through the timeout path after the largest number of
\* sleeps, the marker never having been there
C28_Witness ==
    /\ pollPc = "exited"
    /\ ~pollSaw
    /\ fallback.ran
    /\ check_interval > 1
    /\ timeout > 0
    /\ elapsed = timeout + check_interval - 1
    /\ Sleeps = CeilDiv(timeout, check_interval)

\* C29: across successive runs on one download directory, a poller that exits
\* 0 because it found the marker found a marker written by the run it waits
\* for: that run is in its terminal state and one of its touches succeeded; a
\* marker left by an earlier run never satisfies a later poller.
C29_Original ==
    (pollPc = "exited" /\ pollSaw /\ pollExit = 0)
    => /\ mainPc = "done"
       /\ \E i \in DOMAIN touchLog : touchLog[i].ok

====
